---- MODULE Spec2Model ----
(***************************************************************************)
(* Verification model of the FreshService scripts: the CSV loaders, the    *)
(* access resolver of scripts/get_incident_counts.py, the ticket filter of *)
(* get_incident_count, the pagination loops, a run of                      *)
(* get_incident_counts_summary, and the DatabaseConnection and             *)
(* TransactionManager of the data package.                                 *)
(*                                                                         *)
(* Python values are modelled as follows.                                  *)
(*   - A CSV cell is a string; a cell the row does not have (a short row,  *)
(*     which csv.DictReader fills with None) is the value NoCell.          *)
(*   - str.strip() and int()/float() are finite tables over the cells the  *)
(*     model uses (Strip, IsInt, IntOf, IsFloat, FloatOf).                 *)
(*   - The resolver's result is PyNone or PySet(S); the two are different  *)
(*     values even when S is empty, as None and set() are in Python.       *)
(***************************************************************************)
EXTENDS Integers, Sequences, FiniteSets, TLC

VARIABLES
    \* ---- access resolver (get_allowed_department_ids and its caller)
    acl_file,        \* data/acl.csv: [exists, rows]
    perimeter_map,   \* dict perimeter id -> list of department ids
    dept_map,        \* dict department id -> name
    username,        \* the user the resolver is asked about
    rpc,             \* "start" | "resolved" | "rewritten" | "done"
    result,          \* outcome of the latest resolver call
    prev_result,     \* outcome of the call before it
    \* ---- department criterion of get_incident_count (one page of tickets)
    allowed_dept_ids,\* the access result handed to get_incident_count
    status_filter,   \* [isNone, codes]
    tickets,         \* the page being processed
    idx,             \* number of tickets of the page already processed
    count,           \* the local variable count
    counted,         \* for each processed ticket, whether it was counted
    \* ---- pagination loops
    fn,              \* which function's loop runs
    page,            \* the local variable page
    requests,        \* page requests sent so far
    ppc,             \* "loop" | "returned"
    \* ---- CSV loaders
    loader,          \* which loader runs
    src,             \* the CSV file: [exists, rows], rows as csv.DictReader yields them
    lpc,             \* "start" | "rows" | "returned" | "raised"
    li,              \* rows consumed so far
    entries,         \* the collection built so far
    warnings,        \* warnings logged so far
    raised,          \* "" or the name of the exception that escaped
    \* ---- DatabaseConnection, its sessions and the database
    engine,          \* self.engine: "None" | "engine"
    SessionLocal,    \* self.SessionLocal: "None" | "factory"
    ever_connected,  \* some connect() call has completed without raising
    sessions,        \* sessions created by SessionLocal() so far
    slog,            \* calls made on the session of the latest session_scope
    dcall,           \* the latest call: [op, arg, ret, exc, made], and for
                     \* an insert method its skipped counter
    ops,             \* calls made on the DatabaseConnection so far
    db,              \* the committed tables: [departments, perimeters, acls]
    prev_db,         \* the committed tables before the latest call
    \* ---- one get_incident_count call and the report of three of them
    plog,            \* the pages requested so far, in order
    hits,            \* incidents on the pages answered so far that meet the criteria
    pend,            \* how the call ended: "" | "empty" | "failure" | "limit"
    report,          \* [pass, total_raised, total_resolved, total_open, quiet]:
                     \* the counts of the passes made so far; quiet says that
                     \* since the first pass no request failed and no ticket
                     \* was created or changed on the API side
    \* ---- incident_dashboard.py: the incident list and its metrics
    user_context,    \* the dict of the requesting user
    is_department_head,
    all_incidents,   \* the incidents fetched from the API
    incidents,       \* the list get_all_incidents returned
    metrics,         \* the dict calculate_metrics returned
    dpc              \* "start" | "fetched" | "filtered" | "measured"

resolveVars == <<acl_file, perimeter_map, dept_map, username, rpc, result, prev_result>>
filterVars  == <<allowed_dept_ids, status_filter, tickets, idx, count, counted>>
pagingVars  == <<fn, page, requests, ppc>>
loadVars    == <<loader, src, lpc, li, entries, warnings, raised>>
dbVars      == <<engine, SessionLocal, ever_connected, sessions, slog, dcall, ops, db, prev_db>>
countVars   == <<plog, hits, pend, report>>
dashVars    == <<user_context, is_department_head, all_incidents, incidents, metrics, dpc>>
vars == <<resolveVars, filterVars, pagingVars, loadVars, dbVars, countVars, dashVars>>

(***************************************************************************)
(* Python values                                                           *)
(***************************************************************************)
NoCell == "<None>"

\* str.strip() on the cells of the model.
Strip(s) ==
    CASE s = " 3 "     -> "3"
      [] s = "  "      -> ""
      [] s = "alice "  -> "alice"
      [] OTHER         -> s

\* int(s) succeeds exactly on these cells (after strip).
IsInt(s) == s \in {"0", "1", "2", "3"}

IntOf(s) ==
    CASE s = "0" -> 0
      [] s = "1" -> 1
      [] s = "2" -> 2
      [] s = "3" -> 3

\* float(s) succeeds on the integer literals and on "2.0".
IsFloat(s) == IsInt(s) \/ s = "2.0"

FloatOf(s) == IF s = "2.0" THEN 2 ELSE IntOf(s)

PyNone == [isNone |-> TRUE, ids |-> {}]

PySet(S) == [isNone |-> FALSE, ids |-> S]

Range(s) == {s[i] : i \in DOMAIN s}

(***************************************************************************)
(* scripts/get_incident_counts.py: load_user_acl                           *)
(***************************************************************************)
\* str.lower() on the user names of the model.
Lower(s) == IF s = "Alice" THEN "alice" ELSE s

\* Line 136, the comparison user == username, with a variant that lets
\* every row through and one that ignores case.
UserMatchesAny(user, name) == TRUE

UserMatchesIgnoreCase(user, name) == Lower(user) = Lower(name)

UserMatches(user, name) == user = name

\* One pass of the for loop of lines 131-140: the tuple list after the row,
\* or the exception that escapes (None.strip() on a cell the row lacks).
AclRow(name, row, acc) ==
    IF NoCell \in {row.User, row.AccessLevel, row.Id}
    THEN [exc |-> "AttributeError", acl |-> acc]
    ELSE LET user         == Strip(row.User)
             access_level == Strip(row.AccessLevel)
             id_value     == Strip(row.Id)
         IN IF UserMatches(user, name) /\ access_level # "" /\ id_value # "" /\ IsInt(id_value)
            THEN [exc |-> "", acl |-> Append(acc, <<access_level, IntOf(id_value)>>)]
            ELSE [exc |-> "", acl |-> acc]

RECURSIVE AclRows(_, _, _, _)
AclRows(name, rows, i, acc) ==
    IF i > Len(rows) THEN [exc |-> "", acl |-> acc]
    ELSE LET r == AclRow(name, rows[i], acc)
         IN IF r.exc # "" THEN r ELSE AclRows(name, rows, i + 1, r.acl)

load_user_acl(name, file) ==
    IF ~file.exists THEN [exc |-> "", acl |-> <<>>]
    ELSE AclRows(name, file.rows, 1, <<>>)

(***************************************************************************)
(* scripts/get_incident_counts.py: get_allowed_department_ids              *)
(***************************************************************************)
\* The for loop over user_acl, from grant i on, with the set built so far.
RECURSIVE GrantLoop(_, _, _, _)
GrantLoop(user_acl, pmap, i, allowed) ==
    IF i > Len(user_acl) THEN allowed
    ELSE LET access_level == user_acl[i][1]
             id_value     == user_acl[i][2]
         IN IF access_level = "Perimeter"
            THEN IF id_value \in DOMAIN pmap
                 THEN GrantLoop(user_acl, pmap, i + 1, allowed \cup Range(pmap[id_value]))
                 ELSE GrantLoop(user_acl, pmap, i + 1, allowed)
            ELSE IF access_level = "Business Unit"
                 THEN GrantLoop(user_acl, pmap, i + 1, allowed \cup {id_value})
                 ELSE GrantLoop(user_acl, pmap, i + 1, allowed)

\* The same loop with a perimeter grant contributing only the first
\* department of its perimeter.
RECURSIVE GrantLoopFirstOnly(_, _, _, _)
GrantLoopFirstOnly(user_acl, pmap, i, allowed) ==
    IF i > Len(user_acl) THEN allowed
    ELSE LET access_level == user_acl[i][1]
             id_value     == user_acl[i][2]
         IN IF access_level = "Perimeter"
            THEN IF id_value \in DOMAIN pmap
                 THEN GrantLoopFirstOnly(user_acl, pmap, i + 1,
                                         allowed \cup {pmap[id_value][1]})
                 ELSE GrantLoopFirstOnly(user_acl, pmap, i + 1, allowed)
            ELSE IF access_level = "Business Unit"
                 THEN GrantLoopFirstOnly(user_acl, pmap, i + 1, allowed \cup {id_value})
                 ELSE GrantLoopFirstOnly(user_acl, pmap, i + 1, allowed)

\* Variants of ResolveGrants (below): returning the empty set instead of
\* falling back to None;
ResolveGrantsNoFallback(user_acl, pmap, dmap) ==
    IF user_acl = <<>>
    THEN [val |-> PyNone, warned |-> TRUE]
    ELSE [val |-> PySet(GrantLoop(user_acl, pmap, 1, {})), warned |-> FALSE]

\* the perimeter loop contributing one department only;
ResolveGrantsFirstOnly(user_acl, pmap, dmap) ==
    IF user_acl = <<>>
    THEN [val |-> PyNone, warned |-> TRUE]
    ELSE LET allowed == GrantLoopFirstOnly(user_acl, pmap, 1, {})
         IN [val |-> IF allowed # {} THEN PySet(allowed) ELSE PyNone, warned |-> FALSE]

\* keeping only the ids the department directory knows.
ResolveGrantsKnownOnly(user_acl, pmap, dmap) ==
    IF user_acl = <<>>
    THEN [val |-> PyNone, warned |-> TRUE]
    ELSE LET allowed == GrantLoop(user_acl, pmap, 1, {}) \cap DOMAIN dmap
         IN [val |-> IF allowed # {} THEN PySet(allowed) ELSE PyNone, warned |-> FALSE]

\* Lines 157-174 given the grant list: the value returned and whether the
\* "No ACL found" warning was printed.
ResolveGrants(user_acl, pmap, dmap) ==
    IF user_acl = <<>>
    THEN [val |-> PyNone, warned |-> TRUE]
    ELSE LET allowed == GrantLoop(user_acl, pmap, 1, {})
         IN [val |-> IF allowed # {} THEN PySet(allowed) ELSE PyNone, warned |-> FALSE]

get_allowed_department_ids(name, pmap, dmap, file) ==
    LET loaded == load_user_acl(name, file)
    IN IF loaded.exc # ""
       THEN [exc |-> loaded.exc, val |-> PyNone, warned |-> FALSE]
       ELSE LET r == ResolveGrants(loaded.acl, pmap, dmap)
            IN [exc |-> "", val |-> r.val, warned |-> r.warned]

(***************************************************************************)
(* data/csv_loader.py: the token CSVLoader.load_acls stores for a row      *)
(***************************************************************************)
access_level_of(cell) == IF Strip(cell) = "Perimeter" THEN "P" ELSE "D"

(***************************************************************************)
(* scripts/get_incident_counts.py: get_incident_count, the body of the     *)
(* loop over the tickets of one page (lines 221-244)                       *)
(***************************************************************************)
\* ticket.get('department_id'): the field is an int, null, or not there;
\* both of the latter read as None.
DeptIsNone(ticket) == ticket.department_id.k \in {"missing", "null"}

\* Variants of DeptCriterion (below): a ticket without a department passes;
\* the allowed set is not consulted.
DeptCriterionNoneAllowed(allowed, ticket) ==
    IF ~allowed.isNone
    THEN DeptIsNone(ticket) \/ ticket.department_id.v \in allowed.ids
    ELSE TRUE

DeptCriterionOff(allowed, ticket) == TRUE

\* Lines 239-242: TRUE when the ticket is not skipped. None is a member of
\* no set of ints.
DeptCriterion(allowed, ticket) ==
    IF ~allowed.isNone
    THEN ~DeptIsNone(ticket) /\ ticket.department_id.v \in allowed.ids
    ELSE TRUE

\* A variant of DeptFilter (below) that, having rejected a ticket, lets the
\* ticket after it through unexamined (the effect of removing from a list
\* while iterating over it).
RECURSIVE SkipWalk(_, _, _)
SkipWalk(allowed, served, i) ==
    IF i > Len(served) THEN <<>>
    ELSE IF DeptCriterion(allowed, served[i])
         THEN <<served[i]>> \o SkipWalk(allowed, served, i + 1)
         ELSE (IF i + 1 <= Len(served) THEN <<served[i + 1]>> ELSE <<>>)
              \o SkipWalk(allowed, served, i + 2)

DeptFilterSkipsAfterReject(allowed, served) == SkipWalk(allowed, served, 1)

\* Lines 238-244 over a collection: the tickets, in order, that the
\* department check does not skip.
DeptFilter(allowed, served) ==
    SelectSeq(served, LAMBDA ticket : DeptCriterion(allowed, ticket))

\* Lines 223-225.
TypeCriterion(ticket) == ticket.type = "Incident"

\* Lines 228-232: a ticket without updated_at skips the date check.
DateCriterion(ticket) ==
    IF ticket.updated_at # "" THEN ticket.updated_at # "old" ELSE TRUE

\* Lines 235-236: None and the empty list filter nothing.
StatusCriterion(filter, ticket) ==
    (filter.isNone \/ filter.codes = {}) \/ ticket.status \in filter.codes

\* Whether the loop body reaches count += 1 for the ticket.
TicketCounted(filter, allowed, ticket) ==
    /\ TypeCriterion(ticket)
    /\ DateCriterion(ticket)
    /\ StatusCriterion(filter, ticket)
    /\ DeptCriterion(allowed, ticket)

(***************************************************************************)
(* Inputs of the resolver.  The rows of acl.csv have their three cells     *)
(* here; rows that lack a cell are the loaders' subject (SpecLoad).        *)
(***************************************************************************)
MaxAclRows == 2

SeqsUpTo(S, n) == UNION {[1..k -> S] : k \in 0..n}

Usernames == {"alice", "bob"}

AccessLevelCells == {"Perimeter", "Business Unit", "P", "D"}

AclIdCells == {"1", " 3 ", "x"}

AclRowSet == [User : Usernames, AccessLevel : AccessLevelCells, Id : AclIdCells]

NoAclFile == [exists |-> FALSE, rows |-> <<>>]

AclFiles == {NoAclFile} \cup {[exists |-> TRUE, rows |-> r] : r \in SeqsUpTo(AclRowSet, MaxAclRows)}

\* Perimeter maps as load_perimeters builds them: int keys, non-empty lists.
PerimeterMaps ==
    { <<>>,
      1 :> <<1, 2>>,
      (1 :> <<1, 2>>) @@ (2 :> <<3>>),
      3 :> <<2, 2>> }

DeptMaps == { <<>>, (1 :> "Sales") @@ (2 :> "IT") }

NotCalled == [exc |-> "", val |-> PyNone, warned |-> FALSE]

LongTokens(file) ==
    \A i \in DOMAIN file.rows : Strip(file.rows[i].AccessLevel) \in {"Perimeter", "Business Unit"}

(***************************************************************************)
(* Values of the variables a specification does not use                    *)
(***************************************************************************)
ResolveIdle ==
    /\ acl_file = NoAclFile /\ perimeter_map = <<>> /\ dept_map = <<>>
    /\ username = "" /\ rpc = "idle" /\ result = NotCalled /\ prev_result = NotCalled

FilterIdle ==
    /\ allowed_dept_ids = PyNone /\ status_filter = [isNone |-> TRUE, codes |-> {}]
    /\ tickets = <<>> /\ idx = 0 /\ count = 0 /\ counted = <<>>

PagingIdle == fn = "" /\ page = 0 /\ requests = 0 /\ ppc = "idle"

LoadIdle ==
    /\ loader = "" /\ src = [exists |-> FALSE, rows |-> <<>>] /\ lpc = "idle"
    /\ li = 0 /\ entries = <<>>
    /\ warnings = 0 /\ raised = ""

NoCall == [op |-> "", arg |-> <<>>, ret |-> 0, exc |-> "", made |-> 0]

EmptyDb == [departments |-> <<>>, perimeters |-> <<>>, acls |-> <<>>]

NoReport ==
    [pass |-> 0, total_raised |-> 0, total_resolved |-> 0, total_open |-> 0, quiet |-> TRUE]

CountIdle == plog = <<>> /\ hits = 0 /\ pend = "" /\ report = NoReport

NoMetrics == [total_incidents |-> 0]

DashIdle ==
    /\ user_context = <<>> /\ is_department_head = FALSE
    /\ all_incidents = <<>> /\ incidents = <<>> /\ metrics = NoMetrics /\ dpc = "start"

DbIdle ==
    /\ engine = "None" /\ SessionLocal = "None" /\ ever_connected = FALSE
    /\ sessions = 0 /\ slog = <<>> /\ dcall = NoCall /\ ops = 0
    /\ db = EmptyDb /\ prev_db = EmptyDb

(***************************************************************************)
(* The access resolver: get_incident_counts_summary lines 275-278 call it  *)
(* with the maps loaded from the CSV files.                                *)
(***************************************************************************)
InitResolve ==
    /\ acl_file \in AclFiles
    /\ perimeter_map \in PerimeterMaps
    /\ dept_map \in DeptMaps
    /\ username \in Usernames
    /\ rpc = "start"
    /\ result = NotCalled
    /\ prev_result = NotCalled
    /\ FilterIdle /\ PagingIdle /\ LoadIdle /\ DbIdle /\ CountIdle /\ DashIdle

\* One call of get_allowed_department_ids(username, perimeter_map, dept_map).
Resolve ==
    /\ rpc \in {"start", "rewritten"}
    /\ result' = get_allowed_department_ids(username, perimeter_map, dept_map, acl_file)
    /\ prev_result' = result
    /\ rpc' = IF rpc = "start" THEN "resolved" ELSE "done"
    /\ UNCHANGED <<acl_file, perimeter_map, dept_map, username>>
    /\ UNCHANGED <<filterVars, pagingVars, loadVars, dbVars, countVars, dashVars>>

\* Between two runs the ACL source, written with the tokens "Perimeter" and
\* "Business Unit", is rewritten with the tokens CSVLoader.load_acls stores
\* for the same rows ("P" and "D"); users and ids are kept.
RewriteTokens ==
    /\ rpc = "resolved"
    /\ acl_file.exists
    /\ LongTokens(acl_file)
    /\ acl_file' = [acl_file EXCEPT !.rows =
                        [i \in DOMAIN acl_file.rows |->
                            [acl_file.rows[i] EXCEPT !.AccessLevel = access_level_of(@)]]]
    /\ rpc' = "rewritten"
    /\ UNCHANGED <<perimeter_map, dept_map, username, result, prev_result>>
    /\ UNCHANGED <<filterVars, pagingVars, loadVars, dbVars, countVars, dashVars>>

NextResolve == Resolve \/ RewriteTokens

SpecResolve == InitResolve /\ [][NextResolve]_vars

(***************************************************************************)
(* Claims about the resolver                                               *)
(***************************************************************************)
Resolved == rpc \in {"resolved", "done"}

\* Rows of the ACL source whose user field is the requested username.
MatchingRows ==
    {i \in DOMAIN acl_file.rows : acl_file.exists /\ Strip(acl_file.rows[i].User) = username}

\* The grants of the user: the matching rows with a token and a parseable id.
Grants ==
    {i \in MatchingRows : /\ Strip(acl_file.rows[i].AccessLevel) # ""
                          /\ IsInt(Strip(acl_file.rows[i].Id))}

GrantKind(i) == Strip(acl_file.rows[i].AccessLevel)

GrantId(i) == IntOf(Strip(acl_file.rows[i].Id))

perimeter_departments(p) ==
    IF p \in DOMAIN perimeter_map THEN Range(perimeter_map[p]) ELSE {}

Contribution(i) ==
    IF GrantKind(i) = "Perimeter" THEN perimeter_departments(GrantId(i))
    ELSE IF GrantKind(i) = "Business Unit" THEN {GrantId(i)}
    ELSE {}

ExpectedUnion == UNION {Contribution(i) : i \in Grants}

\* C1: a username with no matching row in the ACL source (or no ACL source
\* at all) resolves to UNRESTRICTED (None), whatever the perimeter map and
\* the department map are.
C1_ZeroGrantsUnrestricted ==
    (Resolved /\ MatchingRows = {}) => (result.exc = "" /\ result.val = PyNone)

\* C1 witness: the source has rows, all of another user, the perimeter map is
\* not empty, and the call returned None.
C1_Witness ==
    /\ Resolved /\ acl_file.exists /\ acl_file.rows # <<>> /\ MatchingRows = {}
    /\ perimeter_map # <<>> /\ result.val = PyNone

\* C2: for a user with at least one grant whose union of contributions
\* (the departments of each "Perimeter" grant's perimeter, the id of each
\* "Business Unit" grant) is not empty, the result is exactly that union;
\* and no id outside the union is ever in a result.
C2_ResultIsUnion ==
    Resolved =>
        /\ result.val.ids \subseteq ExpectedUnion
        /\ (Grants # {} /\ ExpectedUnion # {}) => result.val = PySet(ExpectedUnion)

\* C2 witness: a perimeter grant to a perimeter holding {1,2} and a
\* department grant to 3 resolved to {1,2,3}.
C2_Witness ==
    /\ Resolved
    /\ \E i, j \in Grants :
          /\ GrantKind(i) = "Perimeter" /\ perimeter_departments(GrantId(i)) = {1, 2}
          /\ GrantKind(j) = "Business Unit" /\ GrantId(j) = 3
    /\ result.val = PySet({1, 2, 3})

\* C3: when every grant of the user is a perimeter grant to a perimeter the
\* map does not hold, the result is None, never an empty set.
C3_DanglingPerimetersUnrestricted ==
    (/\ Resolved
     /\ Grants # {}
     /\ \A i \in Grants : GrantKind(i) = "Perimeter" /\ GrantId(i) \notin DOMAIN perimeter_map)
    => (result.val = PyNone /\ result.val # PySet({}))

\* C3 witness: the user holds perimeter grants, all unknown to a non-empty
\* perimeter map, and the call returned None.
C3_Witness ==
    /\ Resolved /\ Grants # {} /\ perimeter_map # <<>>
    /\ \A i \in Grants : GrantKind(i) = "Perimeter" /\ GrantId(i) \notin DOMAIN perimeter_map
    /\ result.val = PyNone

\* C4: a user whose only grant is a department grant to d resolves to {d},
\* whether or not d is a key of the department directory.
C4_SingleDepartmentGrant ==
    Resolved =>
        \A i \in Grants :
            (Grants = {i} /\ GrantKind(i) = "Business Unit")
            => result.val = PySet({GrantId(i)})

\* C4 witness: the single department grant names an id the (non-empty)
\* directory does not hold, and the call returned that id alone.
C4_Witness ==
    /\ Resolved /\ dept_map # <<>>
    /\ \E i \in Grants :
          /\ Grants = {i} /\ GrantKind(i) = "Business Unit"
          /\ GrantId(i) \notin DOMAIN dept_map
          /\ result.val = PySet({GrantId(i)})

\* C5: the same grants written with "Perimeter"/"Business Unit" and with
\* "P"/"D" resolve to the same result: after the source is rewritten from
\* the long tokens to the short ones, the second call returns what the
\* first returned.
C5_TokenNormalization ==
    rpc = "done" => result.val = prev_result.val

(***************************************************************************)
(* The ticket loop of get_incident_count over one page                     *)
(***************************************************************************)
MaxTickets == 2

DeptFields ==
    {[k |-> "missing", v |-> 0], [k |-> "null", v |-> 0],
     [k |-> "int", v |-> 1], [k |-> "int", v |-> 3]}

TicketSet ==
    [type : {"Incident", "Service Request"}, updated_at : {"recent", "old"},
     status : {2, 4}, department_id : DeptFields]

\* What get_incident_counts_summary passes: None (no username), or the
\* resolver's value for some user and sources.
ResolverResults ==
    {PyNone} \cup
    {get_allowed_department_ids(u, pm, dm, f).val :
        u \in Usernames, pm \in PerimeterMaps, dm \in DeptMaps, f \in AclFiles}

\* The three status filters of get_incident_counts_summary (lines 300-320).
StatusFilters ==
    {[isNone |-> TRUE, codes |-> {}], [isNone |-> FALSE, codes |-> {4, 5}],
     [isNone |-> FALSE, codes |-> {2, 3}]}

InitFilter ==
    /\ allowed_dept_ids \in ResolverResults
    /\ status_filter \in StatusFilters
    /\ tickets \in SeqsUpTo(TicketSet, MaxTickets)
    /\ idx = 0
    /\ count = 0
    /\ counted = <<>>
    /\ ResolveIdle /\ PagingIdle /\ LoadIdle /\ DbIdle /\ CountIdle /\ DashIdle

\* One pass of the for loop: the next ticket of the page.
FilterTicket ==
    /\ idx < Len(tickets)
    /\ LET ticket == tickets[idx + 1]
           hit    == TicketCounted(status_filter, allowed_dept_ids, ticket)
       IN /\ count' = IF hit THEN count + 1 ELSE count
          /\ counted' = Append(counted, hit)
    /\ idx' = idx + 1
    /\ UNCHANGED <<allowed_dept_ids, status_filter, tickets>>
    /\ UNCHANGED <<resolveVars, pagingVars, loadVars, dbVars, countVars, dashVars>>

NextFilter == FilterTicket

SpecFilter == InitFilter /\ [][NextFilter]_vars

\* The criteria of the loop other than the department one.
PassesOthers(ticket) ==
    /\ ticket.type = "Incident"
    /\ ticket.updated_at # "old"
    /\ (status_filter.isNone \/ ticket.status \in status_filter.codes)

\* C6: with the access result None the department criterion rejects no
\* ticket (a ticket is counted exactly when it passes the other criteria);
\* with a set, a ticket passing the other criteria is counted if and only if
\* its department_id is a member of the set.  count is the number counted.
C6_ConsumerFilter ==
    /\ \A i \in 1..idx :
          counted[i] <=>
             /\ PassesOthers(tickets[i])
             /\ \/ allowed_dept_ids.isNone
                \/ /\ tickets[i].department_id.k = "int"
                   /\ tickets[i].department_id.v \in allowed_dept_ids.ids
    /\ count = Cardinality({i \in 1..idx : counted[i]})

\* C6 witness: under one restricted result, a page held a ticket that was
\* counted and a ticket that was rejected only for its department.
C6_Witness ==
    /\ ~allowed_dept_ids.isNone
    /\ \E i, j \in 1..idx :
          /\ counted[i]
          /\ ~counted[j] /\ PassesOthers(tickets[j])
          /\ tickets[j].department_id.k = "int"

\* C7: with a restricted access result, a ticket whose department_id is
\* missing or null is never counted.
C7_NoDepartmentNeverCounted ==
    ~allowed_dept_ids.isNone =>
        \A i \in 1..idx :
            tickets[i].department_id.k \in {"missing", "null"} => ~counted[i]

\* C7 witness: restricted, and two tickets that pass every other criterion,
\* one with a null and one with no department_id, were processed and count
\* is still 0.
C7_Witness ==
    /\ ~allowed_dept_ids.isNone
    /\ \E i, j \in 1..idx :
          /\ tickets[i].department_id.k = "null" /\ PassesOthers(tickets[i])
          /\ tickets[j].department_id.k = "missing" /\ PassesOthers(tickets[j])
    /\ count = 0

max_pages == 50

dashboard_page_limit == 50

users_max_pages == 100

\* The model stops following a loop that has no limit of its own after this
\* many requests.
PageCap == 101

Responses == {"error", "empty", "partial", "full"}

Loops ==
    {"get_incident_count", "get_all_incidents", "get_user_info",
     "get_department_users", "fetch_all_requesters", "fetch_all_agents"}

InitPaging ==
    /\ fn \in Loops
    /\ page = 1
    /\ requests = 0
    /\ ppc = "loop"
    /\ ResolveIdle /\ FilterIdle /\ LoadIdle /\ DbIdle /\ CountIdle /\ DashIdle

Returns == ppc' = "returned" /\ UNCHANGED page

NextPage == ppc' = "loop" /\ page' = page + 1

\* get_incident_count, one pass of `while page <= max_pages`: a failed
\* request or an empty page breaks, any other page moves on.
GicRequest ==
    /\ fn = "get_incident_count" /\ ppc = "loop" /\ page <= max_pages
    /\ requests' = requests + 1
    /\ \E resp \in Responses :
          IF resp \in {"error", "empty"} THEN Returns ELSE NextPage
    /\ UNCHANGED fn
    /\ UNCHANGED <<resolveVars, filterVars, loadVars, dbVars, countVars, dashVars>>

\* The while condition fails.
GicExit ==
    /\ fn = "get_incident_count" /\ ppc = "loop" /\ page > max_pages
    /\ Returns
    /\ UNCHANGED <<fn, requests>>
    /\ UNCHANGED <<resolveVars, filterVars, loadVars, dbVars, countVars, dashVars>>

\* get_all_incidents, one pass of `while True` (lines 155-202).
GaiRequest ==
    /\ fn = "get_all_incidents" /\ ppc = "loop"
    /\ requests' = requests + 1
    /\ \E resp \in Responses :
          IF resp \in {"error", "empty", "partial"} THEN Returns
          ELSE IF page + 1 > dashboard_page_limit
               THEN ppc' = "returned" /\ page' = page + 1
               ELSE NextPage
    /\ UNCHANGED fn
    /\ UNCHANGED <<resolveVars, filterVars, loadVars, dbVars, countVars, dashVars>>

\* get_user_info, one pass of `while True` (lines 58-84): the function
\* returns from inside the loop when a requester of the page matches.
GuiRequest ==
    /\ fn = "get_user_info" /\ ppc = "loop"
    /\ requests < PageCap
    /\ requests' = requests + 1
    /\ \E resp \in Responses \cup {"match"} :
          IF resp \in {"error", "empty", "partial", "match"} THEN Returns ELSE NextPage
    /\ UNCHANGED fn
    /\ UNCHANGED <<resolveVars, filterVars, loadVars, dbVars, countVars, dashVars>>

\* get_department_users, one pass of `while True` (lines 103-128).
GduRequest ==
    /\ fn = "get_department_users" /\ ppc = "loop"
    /\ requests < PageCap
    /\ requests' = requests + 1
    /\ \E resp \in Responses :
          IF resp \in {"error", "empty", "partial"} THEN Returns ELSE NextPage
    /\ UNCHANGED fn
    /\ UNCHANGED <<resolveVars, filterVars, loadVars, dbVars, countVars, dashVars>>

\* fetch_all_requesters and fetch_all_agents, one pass of
\* `while page <= max_pages`.
UsersRequest(f) ==
    /\ fn = f /\ ppc = "loop" /\ page <= users_max_pages
    /\ requests' = requests + 1
    /\ \E resp \in Responses :
          IF resp \in {"error", "empty", "partial"} THEN Returns ELSE NextPage
    /\ UNCHANGED fn
    /\ UNCHANGED <<resolveVars, filterVars, loadVars, dbVars, countVars, dashVars>>

UsersExit(f) ==
    /\ fn = f /\ ppc = "loop" /\ page > users_max_pages
    /\ Returns
    /\ UNCHANGED <<fn, requests>>
    /\ UNCHANGED <<resolveVars, filterVars, loadVars, dbVars, countVars, dashVars>>

FarRequest == UsersRequest("fetch_all_requesters")

FarExit == UsersExit("fetch_all_requesters")

FaaRequest == UsersRequest("fetch_all_agents")

FaaExit == UsersExit("fetch_all_agents")

NextPaging ==
    \/ GicRequest \/ GicExit
    \/ GaiRequest
    \/ GuiRequest
    \/ GduRequest
    \/ FarRequest \/ FarExit
    \/ FaaRequest \/ FaaExit

SpecPaging == InitPaging /\ [][NextPaging]_vars

\* C8: every pagination loop ends within a fixed maximum number of page
\* requests, whatever the API answers: no loop sends more requests than the
\* largest page limit of the scripts.
C8_BoundedPageRequests == requests <= users_max_pages

(***************************************************************************)
(* The CSV loaders, one row at a time.  Each row operator gives the        *)
(* collection after the row, whether a warning was logged for the row, and *)
(* the exception that escapes the loader ("" when none does).              *)
(***************************************************************************)
Kept(coll) == [exc |-> "", entries |-> coll, warned |-> FALSE]

Skipped(coll) == [exc |-> "", entries |-> coll, warned |-> TRUE]

Escapes(e, coll) == [exc |-> e, entries |-> coll, warned |-> FALSE]

\* scripts/get_incident_counts.py load_departments, lines 65-72; the
\* ValueError of int() is passed over in silence.
script_departments_row(row, map) ==
    IF NoCell \in {row.ID, row.Name} THEN Escapes("AttributeError", map)
    ELSE LET dept_id   == Strip(row.ID)
             dept_name == Strip(row.Name)
         IN IF dept_id # "" /\ dept_name # "" /\ IsInt(dept_id)
            THEN Kept((IntOf(dept_id) :> dept_name) @@ map)
            ELSE Kept(map)

\* A variant of script_perimeters_row (below) in which a row replaces the
\* list of its perimeter.
script_perimeters_row_overwrite(row, map) ==
    IF NoCell \in {row.Id, row.BU_Id} THEN Escapes("AttributeError", map)
    ELSE LET perimeter_id == Strip(row.Id)
             bu_id        == Strip(row.BU_Id)
         IN IF perimeter_id # "" /\ bu_id # "" /\ IsInt(perimeter_id) /\ IsInt(bu_id)
            THEN Kept((IntOf(perimeter_id) :> <<IntOf(bu_id)>>) @@ map)
            ELSE Kept(map)

\* scripts/get_incident_counts.py load_perimeters, lines 95-107.
script_perimeters_row(row, map) ==
    IF NoCell \in {row.Id, row.BU_Id} THEN Escapes("AttributeError", map)
    ELSE LET perimeter_id == Strip(row.Id)
             bu_id        == Strip(row.BU_Id)
         IN IF perimeter_id # "" /\ bu_id # "" /\ IsInt(perimeter_id) /\ IsInt(bu_id)
            THEN LET peri_id == IntOf(perimeter_id)
                     old     == IF peri_id \in DOMAIN map THEN map[peri_id] ELSE <<>>
                 IN Kept((peri_id :> Append(old, IntOf(bu_id))) @@ map)
            ELSE Kept(map)

\* scripts/get_incident_counts.py load_user_acl, lines 131-140.
script_acl_row(name, row, list) ==
    LET r == AclRow(name, row, list)
    IN IF r.exc # "" THEN Escapes(r.exc, list) ELSE Kept(r.acl)

\* data/csv_loader.py CSVLoader.load_departments, lines 54-63.  float(None)
\* is a TypeError and None.strip() an AttributeError; the handler catches
\* ValueError and KeyError only.
csv_departments_row(row, list) ==
    IF row.ID = NoCell THEN Escapes("TypeError", list)
    ELSE IF ~IsFloat(Strip(row.ID)) THEN Skipped(list)
    ELSE IF row.Name = NoCell THEN Escapes("AttributeError", list)
    ELSE Kept(Append(list, [id |-> FloatOf(Strip(row.ID)), name |-> Strip(row.Name)]))

\* data/csv_loader.py CSVLoader.load_perimeters, lines 101-111.
csv_perimeters_row(row, list) ==
    IF row.Id = NoCell THEN Escapes("TypeError", list)
    ELSE IF ~IsInt(Strip(row.Id)) THEN Skipped(list)
    ELSE IF row.PerimeterName = NoCell THEN Escapes("AttributeError", list)
    ELSE IF row.BU_Id = NoCell THEN Escapes("TypeError", list)
    ELSE IF ~IsFloat(Strip(row.BU_Id)) THEN Skipped(list)
    ELSE Kept(Append(list, [id |-> IntOf(Strip(row.Id)),
                            name |-> Strip(row.PerimeterName),
                            department_id |-> FloatOf(Strip(row.BU_Id))]))

\* data/csv_loader.py CSVLoader.load_acls, lines 149-159.
csv_acls_row(row, list) ==
    IF NoCell \in {row.User, row.AccessLevel} THEN Escapes("AttributeError", list)
    ELSE IF row.Id = NoCell THEN Escapes("TypeError", list)
    ELSE IF ~IsFloat(Strip(row.Id)) THEN Skipped(list)
    ELSE Kept(Append(list, [user |-> Strip(row.User),
                            access_level |-> access_level_of(row.AccessLevel),
                            id |-> FloatOf(Strip(row.Id))]))

ScriptLoaders == {"load_departments", "load_perimeters", "load_user_acl"}

CsvLoaders ==
    {"CSVLoader.load_departments", "CSVLoader.load_perimeters", "CSVLoader.load_acls"}

DeptLoaders == {"load_departments", "CSVLoader.load_departments"}

PerimeterLoaders == {"load_perimeters", "CSVLoader.load_perimeters"}

AclLoaders == {"load_user_acl", "CSVLoader.load_acls"}

\* The row operator of the running loader.
LoaderRow(row) ==
    CASE loader = "load_departments"           -> script_departments_row(row, entries)
      [] loader = "load_perimeters"            -> script_perimeters_row(row, entries)
      [] loader = "load_user_acl"              -> script_acl_row(username, row, entries)
      [] loader = "CSVLoader.load_departments" -> csv_departments_row(row, entries)
      [] loader = "CSVLoader.load_perimeters"  -> csv_perimeters_row(row, entries)
      [] loader = "CSVLoader.load_acls"        -> csv_acls_row(row, entries)

(***************************************************************************)
(* Source tables.  The files carry the header the loader expects; a row    *)
(* may lack a cell (NoCell), hold a blank one, or hold an id that is no    *)
(* number.                                                                 *)
(***************************************************************************)
MaxSrcRows == 3

DeptRowSet == [ID : {"1", "3", "x", "", NoCell}, Name : {"Sales", "  ", NoCell}]

PerimeterRowSet ==
    [Id : {"1", "2", "x"}, PerimeterName : {"North"}, BU_Id : {"1", "3", "x", NoCell}]

LoadAclRowSet ==
    [User : {"alice", "Alice", "alice "}, AccessLevel : {"Perimeter", "Business Unit"},
     Id : {"1", "x", NoCell}]

RowSetOf(l) ==
    IF l \in DeptLoaders THEN DeptRowSet
    ELSE IF l \in PerimeterLoaders THEN PerimeterRowSet
    ELSE LoadAclRowSet

InitLoad ==
    /\ loader \in ScriptLoaders \cup CsvLoaders
    /\ src \in {[exists |-> FALSE, rows |-> <<>>]} \cup
               {[exists |-> TRUE, rows |-> r] : r \in SeqsUpTo(RowSetOf(loader), MaxSrcRows)}
    /\ lpc = "start"
    /\ li = 0
    /\ entries = <<>>
    /\ warnings = 0
    /\ raised = ""
    /\ acl_file = NoAclFile /\ perimeter_map = <<>> /\ dept_map = <<>>
    /\ username = "alice" /\ rpc = "idle" /\ result = NotCalled /\ prev_result = NotCalled
    /\ FilterIdle /\ PagingIdle /\ DbIdle /\ CountIdle /\ DashIdle

\* os.path.exists: the scripts print a warning and return the empty
\* collection, CSVLoader raises FileNotFoundError.
LoadOpen ==
    /\ lpc = "start"
    /\ IF src.exists
       THEN lpc' = "rows" /\ UNCHANGED <<warnings, raised>>
       ELSE IF loader \in ScriptLoaders
            THEN lpc' = "returned" /\ warnings' = warnings + 1 /\ UNCHANGED raised
            ELSE lpc' = "raised" /\ raised' = "FileNotFoundError" /\ UNCHANGED warnings
    /\ UNCHANGED <<loader, src, li, entries>>
    /\ UNCHANGED <<resolveVars, filterVars, pagingVars, dbVars, countVars, dashVars>>

\* One pass of the loader's for loop.
LoadRow(l) ==
    /\ loader = l /\ lpc = "rows" /\ li < Len(src.rows)
    /\ LET r == LoaderRow(src.rows[li + 1])
       IN /\ entries' = r.entries
          /\ warnings' = IF r.warned THEN warnings + 1 ELSE warnings
          /\ raised' = r.exc
          /\ lpc' = IF r.exc # "" THEN "raised" ELSE "rows"
    /\ li' = li + 1
    /\ UNCHANGED <<loader, src>>
    /\ UNCHANGED <<resolveVars, filterVars, pagingVars, dbVars, countVars, dashVars>>

ScriptLoadDepartmentsRow == LoadRow("load_departments")

ScriptLoadPerimetersRow == LoadRow("load_perimeters")

ScriptLoadUserAclRow == LoadRow("load_user_acl")

CsvLoadDepartmentsRow == LoadRow("CSVLoader.load_departments")

CsvLoadPerimetersRow == LoadRow("CSVLoader.load_perimeters")

CsvLoadAclsRow == LoadRow("CSVLoader.load_acls")

\* The rows are exhausted: the loader returns its collection.
LoadReturn ==
    /\ lpc = "rows" /\ li = Len(src.rows)
    /\ lpc' = "returned"
    /\ UNCHANGED <<loader, src, li, entries, warnings, raised>>
    /\ UNCHANGED <<resolveVars, filterVars, pagingVars, dbVars, countVars, dashVars>>

NextLoad ==
    \/ LoadOpen
    \/ ScriptLoadDepartmentsRow
    \/ ScriptLoadPerimetersRow
    \/ ScriptLoadUserAclRow
    \/ CsvLoadDepartmentsRow
    \/ CsvLoadPerimetersRow
    \/ CsvLoadAclsRow
    \/ LoadReturn

SpecLoad == InitLoad /\ [][NextLoad]_vars

(***************************************************************************)
(* Claims about the loaders                                                *)
(***************************************************************************)
LoadFinished == lpc \in {"returned", "raised"}

\* A row all of whose required fields are there and parse.
RowValid(row) ==
    IF loader \in DeptLoaders
    THEN /\ NoCell \notin {row.ID, row.Name}
         /\ IsInt(Strip(row.ID)) /\ Strip(row.Name) # ""
    ELSE IF loader \in PerimeterLoaders
    THEN /\ NoCell \notin {row.Id, row.BU_Id}
         /\ IsInt(Strip(row.Id)) /\ IsInt(Strip(row.BU_Id))
    ELSE /\ NoCell \notin {row.User, row.AccessLevel, row.Id}
         /\ loader = "load_user_acl" => Strip(row.User) = username
         /\ Strip(row.AccessLevel) # "" /\ IsInt(Strip(row.Id))

\* A row whose numeric field is there and is no number, the rest being fine.
RowUnparseable(row) ==
    IF loader \in DeptLoaders
    THEN row.ID = "x" /\ row.Name # NoCell /\ Strip(row.Name) # ""
    ELSE IF loader \in PerimeterLoaders
    THEN /\ NoCell \notin {row.Id, row.BU_Id}
         /\ "x" \in {row.Id, row.BU_Id}
    ELSE /\ NoCell \notin {row.User, row.AccessLevel, row.Id}
         /\ loader = "load_user_acl" => Strip(row.User) = username
         /\ Strip(row.AccessLevel) # "" /\ row.Id = "x"

ValidRows == {i \in DOMAIN src.rows : RowValid(src.rows[i])}

UnparseableRows == {i \in DOMAIN src.rows : RowUnparseable(src.rows[i])}

\* Department ids are unique in a department table.
DistinctDeptIds ==
    loader \in DeptLoaders =>
        \A i, j \in ValidRows : i # j => Strip(src.rows[i].ID) # Strip(src.rows[j].ID)

RECURSIVE SumLen(_, _)
SumLen(map, keys) ==
    IF keys = {} THEN 0
    ELSE LET k == CHOOSE x \in keys : TRUE
         IN Len(map[k]) + SumLen(map, keys \ {k})

\* Number of entries the loader has collected.
EntryCount ==
    IF loader = "load_departments" THEN Cardinality(DOMAIN entries)
    ELSE IF loader = "load_perimeters" THEN SumLen(entries, DOMAIN entries)
    ELSE Len(entries)

OneMalformedAmongValid ==
    /\ src.exists
    /\ Cardinality(UnparseableRows) = 1
    /\ ValidRows \cup UnparseableRows = DOMAIN src.rows
    /\ ValidRows # {}
    /\ DistinctDeptIds

\* C9: a loader given N valid rows and one row with an unparseable field
\* returns without raising, with exactly the N valid entries and exactly one
\* warning logged.
C9_MalformedRowResilience ==
    (LoadFinished /\ OneMalformedAmongValid) =>
        /\ raised = ""
        /\ EntryCount = Cardinality(ValidRows)
        /\ warnings = 1

\* What of C9 the code does: no loader raises on such a table and each
\* returns the N valid entries; the CSVLoader methods log one warning, the
\* loaders of get_incident_counts.py log none.
C9_AsImplemented ==
    (LoadFinished /\ OneMalformedAmongValid) =>
        /\ raised = ""
        /\ EntryCount = Cardinality(ValidRows)
        /\ warnings = IF loader \in CsvLoaders THEN 1 ELSE 0

\* The (id, name) pairs of the loaded department collection.
LoadedDepartments ==
    IF loader = "load_departments"
    THEN {<<k, entries[k]>> : k \in DOMAIN entries}
    ELSE {<<entries[i].id, entries[i].name>> : i \in DOMAIN entries}

\* The row supplies an ID and a Name: both cells are there and not blank.
SuppliesBoth(row) ==
    /\ NoCell \notin {row.ID, row.Name}
    /\ Strip(row.ID) # "" /\ Strip(row.Name) # ""

\* C10: every loaded department comes from a row that supplies both an ID
\* and a Name, and a row lacking either does not stop the load: the loader
\* does not raise and the valid rows are all loaded.
C10_DepartmentRowNeedsIdAndName ==
    (loader \in DeptLoaders /\ LoadFinished /\ src.exists) =>
        /\ raised = ""
        /\ \A d \in LoadedDepartments :
              \E i \in DOMAIN src.rows :
                  /\ SuppliesBoth(src.rows[i])
                  /\ IsInt(Strip(src.rows[i].ID))
                  /\ d = <<IntOf(Strip(src.rows[i].ID)), Strip(src.rows[i].Name)>>
        /\ \A i \in ValidRows : IntOf(Strip(src.rows[i].ID)) \in {d[1] : d \in LoadedDepartments}

\* C10 for the loader of get_incident_counts.py on tables without short rows.
C10_ScriptLoaderFullRows ==
    (/\ loader = "load_departments" /\ LoadFinished /\ src.exists
     /\ \A i \in DOMAIN src.rows : NoCell \notin {src.rows[i].ID, src.rows[i].Name})
    => /\ raised = ""
       /\ \A d \in LoadedDepartments :
             \E i \in DOMAIN src.rows :
                 /\ SuppliesBoth(src.rows[i])
                 /\ IsInt(Strip(src.rows[i].ID))
                 /\ d = <<IntOf(Strip(src.rows[i].ID)), Strip(src.rows[i].Name)>>

\* The tuple load_user_acl keeps for a row.
GrantOf(row) == <<Strip(row.AccessLevel), IntOf(Strip(row.Id))>>

\* The parseable rows of the requested user among the rows consumed, in the
\* order of the source.
GrantRowsSoFar == SelectSeq(SubSeq(src.rows, 1, li), RowValid)

RowsOfPerimeter(p) == {i \in ValidRows : IntOf(Strip(src.rows[i].Id)) = p}

\* C14 for the loader of get_incident_counts.py: after load_perimeters the
\* member list of perimeter p holds exactly the department ids of the valid
\* rows with perimeter id p, and the map has exactly the perimeters of the
\* valid rows: no row's department is lost or replaced by a later row of
\* the same perimeter.
C14_ScriptLoaderAccumulates ==
    (loader = "load_perimeters" /\ lpc = "returned") =>
        /\ DOMAIN entries = {IntOf(Strip(src.rows[i].Id)) : i \in ValidRows}
        /\ \A p \in DOMAIN entries :
              Range(entries[p]) = {IntOf(Strip(src.rows[i].BU_Id)) : i \in RowsOfPerimeter(p)}

\* Two rows of perimeter 1 with different departments, with a row of
\* perimeter 2 between them, and perimeter 1 holds both departments.
C14_ScriptLoaderAccumulated ==
    /\ loader = "load_perimeters" /\ lpc = "returned"
    /\ Len(src.rows) = 3
    /\ src.rows[1].Id = "1" /\ src.rows[2].Id = "2" /\ src.rows[3].Id = "1"
    /\ 1 \in DOMAIN entries /\ Range(entries[1]) = {1, 3}
    /\ 2 \in DOMAIN entries

(***************************************************************************)
(* scripts/get_incident_counts.py: get_incident_counts_summary.  A run     *)
(* loads perimeters.csv, resolves the user's access from it and acl.csv    *)
(* and reports three counts over the tickets the API serves.  Between two  *)
(* runs either CSV file may be edited.                                     *)
(***************************************************************************)
\* load_perimeters over a whole file (lines 87-109).
RECURSIVE PerimeterRows(_, _, _)
PerimeterRows(rows, i, map) ==
    IF i > Len(rows) THEN [exc |-> "", map |-> map]
    ELSE LET r == script_perimeters_row(rows[i], map)
         IN IF r.exc # "" THEN [exc |-> r.exc, map |-> map]
            ELSE PerimeterRows(rows, i + 1, r.entries)

load_perimeters(file) ==
    IF ~file.exists THEN [exc |-> "", map |-> <<>>]
    ELSE PerimeterRows(file.rows, 1, <<>>)

\* get_incident_count over the tickets served (one page): the number of
\* tickets the loop body counts.
get_incident_count(filter, allowed, served) ==
    Cardinality({i \in DOMAIN served : TicketCounted(filter, allowed, served[i])})

\* The dictionary returned at lines 322-330, without the constant days and
\* the clock reading generated_at.
summary_report(name, allowed, served) ==
    [total_raised    |-> get_incident_count([isNone |-> TRUE, codes |-> {}], allowed, served),
     total_resolved  |-> get_incident_count([isNone |-> FALSE, codes |-> {4, 5}], allowed, served),
     total_open      |-> get_incident_count([isNone |-> FALSE, codes |-> {2, 3}], allowed, served),
     username        |-> name,
     department_filter_applied |-> ~allowed.isNone]

MaxRunRows == 2

\* Rows of acl.csv as csv.DictReader yields them; a row may lack its Id cell.
RunAclRowSet ==
    [User : {"alice", "bob"}, AccessLevel : {"Perimeter", "Business Unit"},
     Id : {"1", NoCell}]

RunPerimeterRowSet ==
    [Id : {"1", "2"}, PerimeterName : {"North"}, BU_Id : {"1", "3", NoCell}]

NoFile == [exists |-> FALSE, rows |-> <<>>]

FilesOver(rowset) ==
    {NoFile} \cup {[exists |-> TRUE, rows |-> r] : r \in SeqsUpTo(rowset, MaxRunRows)}

\* What the API serves during a run.
RunPages ==
    { << [type |-> "Incident", updated_at |-> "recent", status |-> 2,
          department_id |-> [k |-> "int", v |-> 1]],
         [type |-> "Incident", updated_at |-> "recent", status |-> 4,
          department_id |-> [k |-> "int", v |-> 3]] >>,
      << [type |-> "Incident", updated_at |-> "recent", status |-> 2,
          department_id |-> [k |-> "null", v |-> 0]] >> }

\* The files one edit away from a file: deleted or created, a row appended,
\* the last row removed.
Edits(file, rowset) ==
    IF ~file.exists THEN {[exists |-> TRUE, rows |-> <<>>]}
    ELSE {NoFile}
         \cup {[file EXCEPT !.rows = Append(@, r)] : r \in IF Len(file.rows) < MaxRunRows THEN rowset ELSE {}}
         \cup {[file EXCEPT !.rows = SubSeq(@, 1, Len(@) - 1)] : x \in IF file.rows # <<>> THEN {0} ELSE {}}

InitRun ==
    /\ acl_file \in FilesOver(RunAclRowSet)
    /\ src \in FilesOver(RunPerimeterRowSet)
    /\ dept_map \in DeptMaps
    /\ tickets \in RunPages
    /\ username = "alice"
    /\ perimeter_map = <<>>
    /\ rpc = "start"
    /\ result = NotCalled
    /\ prev_result = NotCalled
    /\ allowed_dept_ids = PyNone /\ status_filter = [isNone |-> TRUE, codes |-> {}]
    /\ idx = 0 /\ count = 0 /\ counted = <<>>
    /\ loader = "" /\ lpc = "idle" /\ li = 0 /\ entries = <<>>
    /\ warnings = 0 /\ raised = ""
    /\ PagingIdle /\ DbIdle /\ CountIdle /\ DashIdle

\* A run that keeps the access result of the run before it.
SummaryCached ==
    /\ rpc \in {"start", "edited"}
    /\ LET loaded == load_perimeters(src)
       IN IF loaded.exc # ""
          THEN rpc' = "raised" /\ UNCHANGED <<perimeter_map, result, prev_result>>
          ELSE /\ perimeter_map' = loaded.map
               /\ result' = IF rpc = "start"
                            THEN get_allowed_department_ids(username, loaded.map, dept_map, acl_file)
                            ELSE result
               /\ prev_result' = result
               /\ rpc' = IF rpc = "start" THEN "resolved" ELSE "done"
    /\ UNCHANGED <<acl_file, dept_map, username>>
    /\ UNCHANGED <<filterVars, pagingVars, loadVars, dbVars, countVars, dashVars>>

\* One run of get_incident_counts_summary(username=...), lines 268-278:
\* perimeter_map = load_perimeters(), then the resolver, which reads acl.csv.
Summary ==
    /\ rpc \in {"start", "edited"}
    /\ LET loaded == load_perimeters(src)
       IN IF loaded.exc # ""
          THEN rpc' = "raised" /\ UNCHANGED <<perimeter_map, result, prev_result>>
          ELSE /\ perimeter_map' = loaded.map
               /\ result' = get_allowed_department_ids(username, loaded.map, dept_map, acl_file)
               /\ prev_result' = result
               /\ rpc' = IF rpc = "start" THEN "resolved" ELSE "done"
    /\ UNCHANGED <<acl_file, dept_map, username>>
    /\ UNCHANGED <<filterVars, pagingVars, loadVars, dbVars, countVars, dashVars>>

\* acl.csv is edited between two runs.
EditAcl ==
    /\ rpc = "resolved"
    /\ acl_file' \in Edits(acl_file, RunAclRowSet)
    /\ rpc' = "edited"
    /\ UNCHANGED <<perimeter_map, dept_map, username, result, prev_result>>
    /\ UNCHANGED <<filterVars, pagingVars, loadVars, dbVars, countVars, dashVars>>

\* perimeters.csv is edited between two runs.
EditPerimeters ==
    /\ rpc = "resolved"
    /\ src' \in Edits(src, RunPerimeterRowSet)
    /\ rpc' = "edited"
    /\ UNCHANGED <<loader, lpc, li, entries, warnings, raised>>
    /\ UNCHANGED <<acl_file, perimeter_map, dept_map, username, result, prev_result>>
    /\ UNCHANGED <<filterVars, pagingVars, dbVars, countVars, dashVars>>

NextRun == Summary \/ EditAcl \/ EditPerimeters

SpecRun == InitRun /\ [][NextRun]_vars

(***************************************************************************)
(* Claims about a run                                                      *)
(***************************************************************************)
\* The resolver was called in the latest run and the sources are as it
\* read them.
RunResolved == rpc \in {"resolved", "done"}

\* C11: resolution never fails: whatever acl.csv and perimeters.csv hold,
\* get_allowed_department_ids raises nothing and returns None or a non-empty
\* set.
C11_ResolutionNeverFails ==
    RunResolved =>
        /\ result.exc = ""
        /\ (result.val = PyNone \/ result.val.ids # {})

\* What of C11 the code does: a call that returns gives None or a non-empty
\* set; a call raises exactly when acl.csv has a row lacking a cell before
\* its end.
C11_AsImplemented ==
    RunResolved =>
        /\ result.exc = "" => (result.val = PyNone \/ result.val.ids # {})
        /\ result.exc # "" <=>
              (acl_file.exists /\ \E i \in DOMAIN acl_file.rows : acl_file.rows[i].Id = NoCell)

\* C12: after loading, every department id held in a perimeter's member
\* list is the id of a loaded department; references to unknown departments
\* are dropped.
C12_PerimeterMembersKnown ==
    RunResolved =>
        \A p \in DOMAIN perimeter_map : Range(perimeter_map[p]) \subseteq DOMAIN dept_map

\* The departments perimeters.csv, as it is now, gives perimeter p.
SourceMembers(p) ==
    {IntOf(Strip(src.rows[j].BU_Id)) :
        j \in {k \in DOMAIN src.rows : /\ src.exists
                                       /\ IsInt(Strip(src.rows[k].Id))
                                       /\ IsInt(Strip(src.rows[k].BU_Id))
                                       /\ IntOf(Strip(src.rows[k].Id)) = p}}

\* The union of what the grants acl.csv, as it is now, holds for the user
\* contribute under perimeters.csv as it is now.
FreshUnion ==
    UNION {IF GrantKind(i) = "Perimeter" THEN SourceMembers(GrantId(i))
           ELSE IF GrantKind(i) = "Business Unit" THEN {GrantId(i)}
           ELSE {} : i \in Grants}

\* C15: the access result is never cached: when acl.csv or perimeters.csv
\* was edited between two runs for the same user, the second run's result
\* is the one computed from the files as they are at the second run.
C15_NeverCached ==
    (rpc = "done" /\ result.exc = "") =>
        result.val = IF FreshUnion = {} THEN PyNone ELSE PySet(FreshUnion)

\* C15 witness: an edit between the two runs changed the access result from
\* one set to another or between a set and None.
C15_Witness ==
    /\ rpc = "done"
    /\ result.exc = "" /\ prev_result.exc = ""
    /\ result.val # prev_result.val
    /\ ~result.val.isNone

\* The two runs both ended with None, one for a user without grants and the
\* other for a user with grants.
NoGrantsAgainstDangling ==
    /\ rpc = "done"
    /\ result.exc = "" /\ prev_result.exc = ""
    /\ result.val = PyNone /\ prev_result.val = PyNone
    /\ result.warned # prev_result.warned

\* C16: the "No ACL found" warning is printed if and only if the user has
\* zero grants, and the report of get_incident_counts_summary tells a user
\* with no grants apart from a user whose grants all dangle.
C16_NoGrantsDistinguishable ==
    /\ (RunResolved /\ result.exc = "") => (result.warned <=> Grants = {})
    /\ NoGrantsAgainstDangling =>
           summary_report(username, result.val, tickets)
               # summary_report(username, prev_result.val, tickets)

\* The part of C16 the code keeps: the warning goes with zero grants.
C16_WarningIffNoGrants ==
    (RunResolved /\ result.exc = "") => (result.warned <=> Grants = {})

(***************************************************************************)
(* data/database_connection.py: DatabaseConnection.  create_engine, the    *)
(* test query, the body run inside session_scope and session.commit() are  *)
(* outside the class and may raise; session.rollback() and session.close() *)
(* return normally.                                                        *)
(***************************************************************************)
MaxOps == 4

\* How a connect() call can go: create_engine raises, the engine is created
\* and the test query raises, or both succeed.
ConnectOutcomes == {"engine_error", "test_error", "ok"}

\* What the body of a `with db.session_scope()` block does: finish, raise an
\* Exception, or raise a BaseException that is no Exception.
BodyOutcomes == {"ok", "Exception", "KeyboardInterrupt"}

CommitOutcomes == {"ok", "Exception"}

\* isinstance(e, Exception), the test of `except Exception` (line 130).
IsException(e) == e = "Exception"

\* A variant of connect (below) that creates the session factory before
\* the test query.
connect_factory_first(eng, factory, outcome) ==
    IF outcome = "engine_error"
    THEN [engine |-> eng, SessionLocal |-> factory, exc |-> "Exception"]
    ELSE IF outcome = "test_error"
    THEN [engine |-> "engine", SessionLocal |-> "factory", exc |-> "Exception"]
    ELSE [engine |-> "engine", SessionLocal |-> "factory", exc |-> ""]

\* connect, lines 76-96: the fields after the call and the exception raised.
connect(eng, factory, outcome) ==
    IF outcome = "engine_error"
    THEN [engine |-> eng, SessionLocal |-> factory, exc |-> "Exception"]
    ELSE IF outcome = "test_error"
    THEN [engine |-> "engine", SessionLocal |-> factory, exc |-> "Exception"]
    ELSE [engine |-> "engine", SessionLocal |-> "factory", exc |-> ""]

\* get_session, lines 108-111.
get_session(factory) ==
    IF factory = "None"
    THEN [exc |-> "RuntimeError", made |-> 0]
    ELSE [exc |-> "", made |-> 1]

\* A variant of session_scope (below) that closes the session only after a
\* successful commit.
session_scope_no_finally(factory, body, commit) ==
    LET s == get_session(factory)
    IN IF s.exc # "" THEN [events |-> <<>>, exc |-> s.exc, made |-> 0]
       ELSE IF body = "ok"
       THEN IF commit = "ok"
            THEN [events |-> <<"commit", "close">>, exc |-> "", made |-> 1]
            ELSE [events |-> <<"commit_raised", "rollback">>, exc |-> commit, made |-> 1]
       ELSE IF IsException(body)
       THEN [events |-> <<"rollback">>, exc |-> body, made |-> 1]
       ELSE [events |-> <<>>, exc |-> body, made |-> 1]

\* session_scope, lines 125-135, around a body: the calls made on the
\* session, in order, and the exception that leaves the with block.
session_scope(factory, body, commit) ==
    LET s == get_session(factory)
    IN IF s.exc # "" THEN [events |-> <<>>, exc |-> s.exc, made |-> 0]
       ELSE IF body = "ok"
       THEN IF commit = "ok"
            THEN [events |-> <<"commit", "close">>, exc |-> "", made |-> 1]
            ELSE [events |-> <<"commit_raised", "rollback", "close">>, exc |-> commit, made |-> 1]
       ELSE IF IsException(body)
       THEN [events |-> <<"rollback", "close">>, exc |-> body, made |-> 1]
       ELSE [events |-> <<"close">>, exc |-> body, made |-> 1]

InitSession ==
    /\ engine = "None" /\ SessionLocal = "None" /\ ever_connected = FALSE
    /\ sessions = 0 /\ slog = <<>> /\ dcall = NoCall /\ ops = 0
    /\ db = EmptyDb /\ prev_db = EmptyDb
    /\ ResolveIdle /\ FilterIdle /\ PagingIdle /\ LoadIdle /\ CountIdle /\ DashIdle

Connect ==
    /\ ops < MaxOps
    /\ \E outcome \in ConnectOutcomes :
          LET r == connect(engine, SessionLocal, outcome)
          IN /\ engine' = r.engine
             /\ SessionLocal' = r.SessionLocal
             /\ ever_connected' = (ever_connected \/ outcome = "ok")
             /\ dcall' = [op |-> "connect", arg |-> <<outcome>>, ret |-> 0,
                          exc |-> r.exc, made |-> 0]
    /\ ops' = ops + 1
    /\ UNCHANGED <<sessions, slog, db, prev_db>>
    /\ UNCHANGED <<resolveVars, filterVars, pagingVars, loadVars, countVars, dashVars>>

GetSession ==
    /\ ops < MaxOps
    /\ LET r == get_session(SessionLocal)
       IN /\ sessions' = sessions + r.made
          /\ dcall' = [op |-> "get_session", arg |-> <<>>, ret |-> 0,
                       exc |-> r.exc, made |-> r.made]
    /\ ops' = ops + 1
    /\ UNCHANGED <<engine, SessionLocal, ever_connected, slog, db, prev_db>>
    /\ UNCHANGED <<resolveVars, filterVars, pagingVars, loadVars, countVars, dashVars>>

\* One `with db.session_scope() as session:` block, from get_session to
\* session.close().
SessionScope ==
    /\ ops < MaxOps
    /\ \E body \in BodyOutcomes, commit \in CommitOutcomes :
          LET r == session_scope(SessionLocal, body, commit)
          IN /\ slog' = r.events
             /\ sessions' = sessions + r.made
             /\ dcall' = [op |-> "session_scope", arg |-> <<body, commit>>, ret |-> 0,
                          exc |-> r.exc, made |-> r.made]
    /\ ops' = ops + 1
    /\ UNCHANGED <<engine, SessionLocal, ever_connected, db, prev_db>>
    /\ UNCHANGED <<resolveVars, filterVars, pagingVars, loadVars, countVars, dashVars>>

\* disconnect, lines 137-141: disposes of the engine's pool; no field of
\* the object changes.
Disconnect ==
    /\ ops < MaxOps
    /\ dcall' = [op |-> "disconnect", arg |-> <<>>, ret |-> 0, exc |-> "", made |-> 0]
    /\ ops' = ops + 1
    /\ UNCHANGED <<engine, SessionLocal, ever_connected, sessions, slog, db, prev_db>>
    /\ UNCHANGED <<resolveVars, filterVars, pagingVars, loadVars, countVars, dashVars>>

NextSession == Connect \/ GetSession \/ SessionScope \/ Disconnect

SpecSession == InitSession /\ [][NextSession]_vars

(***************************************************************************)
(* Claims about DatabaseConnection                                         *)
(***************************************************************************)
\* The latest call was a session_scope block that obtained a session.
ScopeUsed == dcall.op = "session_scope" /\ dcall.made = 1

Occurrences(log, e) == Cardinality({i \in DOMAIN log : log[i] = e})

ClosedOnceLast ==
    /\ Occurrences(slog, "close") = 1
    /\ slog[Len(slog)] = "close"

\* C18 as stated: on every use of session_scope the session is committed
\* exactly once and not rolled back when the body finishes normally; it is
\* rolled back, never committed, and the exception is re-raised when the
\* body or the commit raises; in both cases the session is closed exactly
\* once, after the commit or rollback.
C18_SessionScopeLifecycle ==
    ScopeUsed =>
        LET body   == dcall.arg[1]
            commit == dcall.arg[2]
        IN /\ (body = "ok" /\ commit = "ok") =>
                 /\ Occurrences(slog, "commit") = 1
                 /\ Occurrences(slog, "rollback") = 0
                 /\ dcall.exc = ""
           /\ (body # "ok" \/ commit # "ok") =>
                 /\ Occurrences(slog, "rollback") = 1
                 /\ Occurrences(slog, "commit") = 0
                 /\ dcall.exc = IF body # "ok" THEN body ELSE commit
           /\ ClosedOnceLast

\* C18 as amended: the rollback follows a raise that is an Exception; a
\* raise of the body that is no Exception leaves the block with neither
\* commit nor rollback.  The rest is as stated.
C18_SessionScopeLifecycleAmended ==
    ScopeUsed =>
        LET body   == dcall.arg[1]
            commit == dcall.arg[2]
        IN /\ (body = "ok" /\ commit = "ok") =>
                 /\ Occurrences(slog, "commit") = 1
                 /\ Occurrences(slog, "rollback") = 0
                 /\ dcall.exc = ""
           /\ (IsException(body) \/ (body = "ok" /\ IsException(commit))) =>
                 /\ Occurrences(slog, "rollback") = 1
                 /\ Occurrences(slog, "commit") = 0
                 /\ dcall.exc = IF body # "ok" THEN body ELSE commit
           /\ (body # "ok" /\ ~IsException(body)) =>
                 /\ Occurrences(slog, "rollback") = 0
                 /\ Occurrences(slog, "commit") = 0
                 /\ dcall.exc = body
           /\ ClosedOnceLast

\* C18 witness: the body finished, the commit raised an Exception, and the
\* session was rolled back and then closed.
C18_Witness ==
    /\ ScopeUsed
    /\ dcall.arg = <<"ok", "Exception">>
    /\ slog = <<"commit_raised", "rollback", "close">>
    /\ dcall.exc = "Exception"

\* C19: get_session returns a session if and only if some earlier connect()
\* call on the object completed without raising; otherwise it raises
\* RuntimeError and creates no session.
C19_SessionIffConnected ==
    dcall.op = "get_session" =>
        /\ dcall.exc = "" <=> ever_connected
        /\ dcall.exc = "" => dcall.made = 1
        /\ dcall.exc # "" => (dcall.exc = "RuntimeError" /\ dcall.made = 0)

\* C19 witness: the only connect so far created the engine and failed at
\* the test query, and get_session raised RuntimeError.
C19_Witness ==
    /\ dcall.op = "get_session" /\ dcall.exc = "RuntimeError"
    /\ engine = "engine" /\ ~ever_connected
    /\ sessions = 0

(***************************************************************************)
(* data/transaction_manager.py: TransactionManager over the tables of      *)
(* data/models.py.  A table row is a record; db.departments maps an id to  *)
(* a name, db.perimeters an id to [name, departments], and db.acls is the  *)
(* list of ACL rows in insertion order.  A query inside a session sees the *)
(* rows added earlier in the session (autoflush).                          *)
(***************************************************************************)
\* A nullable column holding NULL.
Null == -1

\* Python truthiness of a number or None (`if dept_id:`, `if perm_id:`).
Truthy(v) == v # Null /\ v # 0

\* insert_acls, lines 155-189, for one row.  st is [acls, inserted, skipped,
\* warned]: the acls table as the session sees it and the counters.
insert_acls_row(acl_data, st, perimeters) ==
    LET found == {i \in DOMAIN st.acls : st.acls[i].user_id = acl_data.user}
        after == IF found # {} THEN [st EXCEPT !.skipped = @ + 1] ELSE st
        acl   == [user_id       |-> acl_data.user,
                  perimeter_id  |-> IF acl_data.access_level = "P" THEN acl_data.id ELSE Null,
                  department_id |-> IF acl_data.access_level = "P" THEN Null ELSE acl_data.id]
        added == IF found # {} THEN after.acls ELSE Append(after.acls, acl)
    IN IF "perimeter_id" \notin DOMAIN acl_data
       THEN \* KeyError at line 173, caught at line 186
            [after EXCEPT !.skipped = @ + 1]
       ELSE IF Truthy(acl_data.perimeter_id) /\ acl_data.perimeter_id \in DOMAIN perimeters
       THEN \* ACL has no attribute `perimeters`: AttributeError at line 177
            [after EXCEPT !.skipped = @ + 1]
       ELSE [after EXCEPT !.acls = added, !.inserted = @ + 1, !.warned = @ + 1]

RECURSIVE insert_acls_rows(_, _, _, _)
insert_acls_rows(acls, i, st, perimeters) ==
    IF i > Len(acls) THEN st
    ELSE insert_acls_rows(acls, i + 1, insert_acls_row(acls[i], st, perimeters), perimeters)

\* insert_departments with the existing-id branch falling through to the
\* add and the count, as insert_perimeters does.
insert_departments_row_counts_existing(dept, st) ==
    LET existing == dept.id \in DOMAIN st.departments
    IN [departments |-> IF existing THEN st.departments
                        ELSE (dept.id :> dept.name) @@ st.departments,
        inserted    |-> st.inserted + 1,
        skipped     |-> IF existing THEN st.skipped + 1 ELSE st.skipped,
        added       |-> IF existing THEN st.added ELSE Append(st.added, dept.id)]

\* insert_departments, lines 47-70, for one row.  st is [departments,
\* inserted, skipped, added]: the departments table as the session sees
\* it, the counters, and the ids handed to session.add.
insert_departments_row(dept, st) ==
    LET existing == dept.id \in DOMAIN st.departments
    IN IF existing
       THEN [st EXCEPT !.skipped = @ + 1]
       ELSE [st EXCEPT !.departments = (dept.id :> dept.name) @@ @,
                       !.inserted = @ + 1,
                       !.added = Append(@, dept.id)]

RECURSIVE insert_departments_rows(_, _, _)
insert_departments_rows(departments, i, st) ==
    IF i > Len(departments) THEN st
    ELSE insert_departments_rows(departments, i + 1,
                                 insert_departments_row(departments[i], st))

\* insert_perimeters, lines 97-129, for one row.  st is [perimeters,
\* inserted, skipped, warned, conflict]; conflict records that a Perimeter
\* was added under an id the table already holds, which fails the flush and
\* with it the transaction.
insert_perimeters_row(perm, st, departments) ==
    LET named  == {p \in DOMAIN st.perimeters : st.perimeters[p].name = perm.name}
        found  == named # {}
        pid    == IF found THEN CHOOSE p \in named : TRUE ELSE perm.id
        clash  == ~found /\ perm.id \in DOMAIN st.perimeters
        old    == IF found THEN st.perimeters[pid]
                  ELSE [name |-> perm.name, departments |-> {}]
        dept_id == perm.department_id
        linked == Truthy(dept_id) /\ dept_id \in DOMAIN departments
        new    == IF linked THEN [old EXCEPT !.departments = @ \cup {dept_id}] ELSE old
    IN [perimeters |-> IF clash THEN st.perimeters ELSE (pid :> new) @@ st.perimeters,
        inserted   |-> st.inserted + 1,
        skipped    |-> IF found THEN st.skipped + 1 ELSE st.skipped,
        warned     |-> IF linked THEN st.warned ELSE st.warned + 1,
        conflict   |-> st.conflict \/ clash]

RECURSIVE insert_perimeters_rows(_, _, _, _)
insert_perimeters_rows(perimeters, i, st, departments) ==
    IF i > Len(perimeters) THEN st
    ELSE IF st.conflict
         THEN \* the session is unusable after the failed flush: every
              \* later row raises at its query and is skipped
              insert_perimeters_rows(perimeters, i + 1, [st EXCEPT !.skipped = @ + 1], departments)
         ELSE insert_perimeters_rows(perimeters, i + 1,
                                     insert_perimeters_row(perimeters[i], st, departments),
                                     departments)

(***************************************************************************)
(* One call of an insert method on a database in some state, with the list *)
(* the matching CSVLoader method returns (seed.py main, lines 441-446).    *)
(***************************************************************************)
MaxDbRows == 2

DbAclCells ==
    [User : {"alice", "bob"}, AccessLevel : {"Perimeter", "Business Unit"}, Id : {"1", "3"}]

DbPerimeterCells ==
    {[Id |-> "1", PerimeterName |-> "North", BU_Id |-> b] : b \in {"0", "1", "3"}}
    \cup {[Id |-> "2", PerimeterName |-> "South", BU_Id |-> b] : b \in {"0", "1", "3"}}

DbDepartmentCells ==
    {[ID |-> "1", Name |-> "Sales"], [ID |-> "3", Name |-> "IT"], [ID |-> " 3 ", Name |-> "Ops"]}

\* The number of insert_departments calls in a row.
MaxSeedCalls == 2

\* The dictionaries the CSVLoader methods build.
SeedDepartments == {csv_departments_row(c, <<>>).entries[1] : c \in DbDepartmentCells}

LoadedAcls == {csv_acls_row(c, <<>>).entries[1] : c \in DbAclCells}

LoadedPerimeters == {csv_perimeters_row(c, <<>>).entries[1] : c \in DbPerimeterCells}

InitialDbs ==
    { EmptyDb,
      [departments |-> (0 :> "HQ") @@ (1 :> "Sales") @@ (3 :> "IT"),
       perimeters  |-> <<>>,
       acls        |-> <<>>],
      [departments |-> (1 :> "Sales") @@ (3 :> "IT"),
       perimeters  |-> (1 :> [name |-> "North", departments |-> {1}]),
       acls        |-> <<[user_id |-> "alice", perimeter_id |-> 1, department_id |-> Null]>>] }

InitSeed ==
    /\ SessionLocal \in {"None", "factory"}
    /\ engine = (IF SessionLocal = "None" THEN "None" ELSE "engine")
    /\ ever_connected = (SessionLocal # "None")
    /\ sessions = 0 /\ slog = <<>> /\ dcall = NoCall /\ ops = 0
    /\ db \in InitialDbs
    /\ prev_db = db
    /\ ResolveIdle /\ FilterIdle /\ PagingIdle /\ LoadIdle /\ CountIdle /\ DashIdle

\* insert_acls, lines 149-196.  The loop catches every Exception of a row,
\* so the body of the with block finishes; the commit may raise.
InsertAcls ==
    /\ dcall.op = ""
    /\ \E acls \in SeqsUpTo(LoadedAcls, MaxDbRows), commit \in CommitOutcomes :
          LET st == insert_acls_rows(acls, 1,
                        [acls |-> db.acls, inserted |-> 0, skipped |-> 0, warned |-> 0],
                        db.perimeters)
              sc == session_scope(SessionLocal, "ok", commit)
          IN /\ slog' = sc.events
             /\ sessions' = sessions + sc.made
             /\ db' = IF sc.exc = "" THEN [db EXCEPT !.acls = st.acls] ELSE db
             /\ dcall' = [op |-> "insert_acls", arg |-> acls,
                          ret |-> IF sc.exc = "" THEN st.inserted ELSE 0,
                          exc |-> sc.exc, made |-> sc.made, skipped |-> st.skipped]
    /\ prev_db' = db
    /\ ops' = ops + 1
    /\ UNCHANGED <<engine, SessionLocal, ever_connected>>
    /\ UNCHANGED <<resolveVars, filterVars, pagingVars, loadVars, countVars, dashVars>>

\* insert_perimeters, lines 91-137.  A clash of primary keys fails the
\* flush, so the commit raises whatever the database would answer.
InsertPerimeters ==
    /\ dcall.op = ""
    /\ \E perimeters \in SeqsUpTo(LoadedPerimeters, MaxDbRows), commit \in CommitOutcomes :
          LET st == insert_perimeters_rows(perimeters, 1,
                        [perimeters |-> db.perimeters, inserted |-> 0, skipped |-> 0,
                         warned |-> 0, conflict |-> FALSE],
                        db.departments)
              sc == session_scope(SessionLocal, "ok",
                                  IF st.conflict THEN "Exception" ELSE commit)
          IN /\ slog' = sc.events
             /\ sessions' = sessions + sc.made
             /\ db' = IF sc.exc = "" THEN [db EXCEPT !.perimeters = st.perimeters] ELSE db
             /\ dcall' = [op |-> "insert_perimeters", arg |-> perimeters,
                          ret |-> IF sc.exc = "" THEN st.inserted ELSE 0,
                          exc |-> sc.exc, made |-> sc.made, skipped |-> st.skipped]
    /\ prev_db' = db
    /\ ops' = ops + 1
    /\ UNCHANGED <<engine, SessionLocal, ever_connected>>
    /\ UNCHANGED <<resolveVars, filterVars, pagingVars, loadVars, countVars, dashVars>>

\* insert_departments, lines 41-79, called first or after another
\* insert_departments call; `before` keeps what that call was given and
\* what it answered.
InsertDepartments ==
    /\ dcall.op \in {"", "insert_departments"}
    /\ ops < MaxSeedCalls
    /\ \E departments \in SeqsUpTo(SeedDepartments, MaxDbRows), commit \in CommitOutcomes :
          LET st == insert_departments_rows(departments, 1,
                        [departments |-> db.departments, inserted |-> 0, skipped |-> 0,
                         added |-> <<>>])
              sc == session_scope(SessionLocal, "ok", commit)
          IN /\ slog' = sc.events
             /\ sessions' = sessions + sc.made
             /\ db' = IF sc.exc = "" THEN [db EXCEPT !.departments = st.departments] ELSE db
             /\ dcall' = [op |-> "insert_departments", arg |-> departments,
                          ret |-> IF sc.exc = "" THEN st.inserted ELSE 0,
                          exc |-> sc.exc, made |-> sc.made, skipped |-> st.skipped,
                          added |-> IF sc.made = 1 THEN st.added ELSE <<>>,
                          before |-> [op |-> dcall.op, arg |-> dcall.arg,
                                      ret |-> dcall.ret, exc |-> dcall.exc]]
    /\ prev_db' = db
    /\ ops' = ops + 1
    /\ UNCHANGED <<engine, SessionLocal, ever_connected>>
    /\ UNCHANGED <<resolveVars, filterVars, pagingVars, loadVars, countVars, dashVars>>

NextSeed == InsertAcls \/ InsertPerimeters \/ InsertDepartments

SpecSeed == InitSeed /\ [][NextSeed]_vars

(***************************************************************************)
(* Claims about the insert methods                                         *)
(***************************************************************************)
Returned(op) == dcall.op = op /\ dcall.exc = ""

\* The ACL record the claim expects for a row of load_acls.
AclRecordFor(row) ==
    [user_id       |-> row.user,
     perimeter_id  |-> IF row.access_level = "P" THEN row.id ELSE Null,
     department_id |-> IF row.access_level = "P" THEN Null ELSE row.id]

\* The records expected from rows i.. of the input, given the users that
\* have an ACL already.
RECURSIVE ExpectedAcls(_, _, _)
ExpectedAcls(rows, i, users) ==
    IF i > Len(rows) THEN <<>>
    ELSE IF rows[i].user \in users THEN ExpectedAcls(rows, i + 1, users)
    ELSE <<AclRecordFor(rows[i])>> \o ExpectedAcls(rows, i + 1, users \cup {rows[i].user})

AddedAcls == SubSeq(db.acls, Len(prev_db.acls) + 1, Len(db.acls))

\* C20: insert_acls, given the rows CSVLoader.load_acls produces, adds one
\* ACL record for each row whose user has no ACL yet, with perimeter_id set
\* to the row's id when access_level is 'P' and department_id set otherwise,
\* and returns the number of ACL records added.
C20_InsertAclsAddsRows ==
    Returned("insert_acls") =>
        /\ AddedAcls = ExpectedAcls(dcall.arg, 1,
                                    {prev_db.acls[i].user_id : i \in DOMAIN prev_db.acls})
        /\ dcall.ret = Len(AddedAcls)

\* What insert_acls does with the rows of load_acls: nothing is added and 0
\* is returned.
C20_AsImplemented ==
    Returned("insert_acls") => (db = prev_db /\ dcall.ret = 0)

\* The departments the input rows give perimeter p.
RowDepartments(rows, p) == {rows[i].department_id : i \in {j \in DOMAIN rows : rows[j].id = p}}

\* C14: perimeter rows accumulate: after the rows of the perimeter source
\* are loaded, the member set of perimeter id p is the set of the department
\* ids of the valid rows with perimeter id p, and no row's department is
\* lost.  Here for the database: insert_perimeters has stored the rows of
\* CSVLoader.load_perimeters in a database without perimeters that holds
\* every department the rows name.
C14_PerimeterRowsAccumulate ==
    (/\ Returned("insert_perimeters")
     /\ prev_db.perimeters = <<>>
     /\ \A i \in DOMAIN dcall.arg : dcall.arg[i].department_id \in DOMAIN prev_db.departments)
    => \A i \in DOMAIN dcall.arg :
          LET p == dcall.arg[i].id
          IN /\ p \in DOMAIN db.perimeters
             /\ db.perimeters[p].departments = RowDepartments(dcall.arg, p)

\* The Perimeter records the latest call created.
NewPerimeters == DOMAIN db.perimeters \ DOMAIN prev_db.perimeters

\* C21: insert_perimeters returns the number of perimeters inserted: the
\* returned count equals the number of new Perimeter records created, and
\* inserted + skipped equals the number of input rows (a row of an already
\* existing perimeter counts as skipped, not inserted).
C21_ReturnsInsertedCount ==
    Returned("insert_perimeters") =>
        /\ dcall.ret = Cardinality(NewPerimeters)
        /\ dcall.ret + dcall.skipped = Len(dcall.arg)

\* What insert_perimeters returns: the number of input rows, whether or not
\* their perimeter existed, each row of an existing perimeter being counted
\* as skipped as well.
C21_AsImplemented ==
    Returned("insert_perimeters") =>
        /\ dcall.ret = Len(dcall.arg)
        /\ dcall.skipped = Len(dcall.arg) - Cardinality(NewPerimeters)

\* The latest call repeats a returned insert_departments call on its input.
RepeatedCall ==
    /\ Returned("insert_departments")
    /\ dcall.before.op = "insert_departments"
    /\ dcall.before.exc = ""
    /\ dcall.before.arg = dcall.arg

\* C22: insert_departments skips ids already present: a call hands
\* session.add only ids the table does not hold, each once, so that no
\* department id is stored twice; a call that returns gives the number of
\* records it added, with inserted + skipped equal to the number of input
\* rows; and a call repeating the input of the call before it adds nothing
\* and returns 0.
C22_DepartmentsSkipExisting ==
    /\ dcall.op = "insert_departments" =>
          /\ \A i \in DOMAIN dcall.added : dcall.added[i] \notin DOMAIN prev_db.departments
          /\ \A i, j \in DOMAIN dcall.added : dcall.added[i] = dcall.added[j] => i = j
    /\ Returned("insert_departments") =>
          /\ dcall.ret = Cardinality(DOMAIN db.departments \ DOMAIN prev_db.departments)
          /\ dcall.ret = Len(dcall.added)
          /\ dcall.ret + dcall.skipped = Len(dcall.arg)
          /\ \A d \in DOMAIN prev_db.departments :
                d \in DOMAIN db.departments /\ db.departments[d] = prev_db.departments[d]
    /\ RepeatedCall => (dcall.ret = 0 /\ db = prev_db)

\* A call that added two departments is repeated on the same two rows and
\* skips both.
C22_Witness ==
    /\ RepeatedCall
    /\ dcall.before.ret = 2
    /\ dcall.ret = 0 /\ dcall.skipped = 2

(***************************************************************************)
(* scripts/get_incident_counts.py get_incident_count, a whole call: the    *)
(* API answers each page request with a failure, an empty page or a page   *)
(* of tickets.                                                             *)
(***************************************************************************)
CountTickets ==
    [type : {"Incident", "Service Request"}, updated_at : {"recent"},
     status : {2, 4}, department_id : {[k |-> "int", v |-> 1]}]

\* What a page request can give: a RequestException (from requests.get or
\* raise_for_status), or the list of tickets of the page, possibly empty.
CountResponses ==
    {[exc |-> "RequestException", served |-> <<>>]}
    \cup {[exc |-> "", served |-> t] : t \in SeqsUpTo(CountTickets, MaxTickets)}

CountAllowed == {PyNone, PySet({1}), PySet({3})}

\* Lines 207-250 with a handler that lets the failure out of the function.
gic_response_failure_raises(resp, st) ==
    IF resp.exc # ""
    THEN [st EXCEPT !.ppc = "raised", !.pend = "failure"]
    ELSE IF resp.served = <<>>
    THEN [st EXCEPT !.ppc = "returned", !.pend = "empty"]
    ELSE [st EXCEPT !.count = @ + get_incident_count(st.filter, st.allowed, resp.served),
                    !.page = @ + 1]

\* Lines 207-250, one pass of the while loop after requests.get: st is
\* [count, page, ppc, pend, filter, allowed].
gic_response(resp, st) ==
    IF resp.exc # ""
    THEN \* except requests.exceptions.RequestException: break
         [st EXCEPT !.ppc = "returned", !.pend = "failure"]
    ELSE IF resp.served = <<>>
    THEN \* if not tickets: break
         [st EXCEPT !.ppc = "returned", !.pend = "empty"]
    ELSE [st EXCEPT !.count = @ + get_incident_count(st.filter, st.allowed, resp.served),
                    !.page = @ + 1]

InitCount ==
    /\ fn = "get_incident_count"
    /\ page = 1 /\ requests = 0 /\ ppc = "loop"
    /\ allowed_dept_ids \in CountAllowed
    /\ status_filter \in StatusFilters
    /\ tickets = <<>> /\ idx = 0 /\ count = 0 /\ counted = <<>>
    /\ plog = <<>> /\ hits = 0 /\ pend = "" /\ report = NoReport
    /\ ResolveIdle /\ LoadIdle /\ DbIdle /\ DashIdle

\* One pass of `while page <= max_pages`: the request for the page and what
\* the loop does with the answer.  hits keeps what the answered pages held.
CountRequest ==
    /\ ppc = "loop" /\ page <= max_pages
    /\ plog' = Append(plog, page)
    /\ requests' = requests + 1
    /\ \E resp \in CountResponses :
          LET st == gic_response(resp, [count |-> count, page |-> page, ppc |-> ppc,
                                        pend |-> pend, filter |-> status_filter,
                                        allowed |-> allowed_dept_ids])
          IN /\ count' = st.count /\ page' = st.page /\ ppc' = st.ppc /\ pend' = st.pend
             /\ hits' = IF resp.exc # "" THEN hits
                        ELSE hits + Cardinality({i \in DOMAIN resp.served :
                                        TicketCounted(status_filter, allowed_dept_ids,
                                                      resp.served[i])})
    /\ UNCHANGED <<fn, allowed_dept_ids, status_filter, tickets, idx, counted, report>>
    /\ UNCHANGED <<resolveVars, loadVars, dbVars, dashVars>>

\* The while condition fails: return count.
CountExit ==
    /\ ppc = "loop" /\ page > max_pages
    /\ ppc' = "returned" /\ pend' = "limit"
    /\ UNCHANGED <<fn, page, requests, plog, hits, report>>
    /\ UNCHANGED <<resolveVars, filterVars, loadVars, dbVars, dashVars>>

NextCount == CountRequest \/ CountExit

SpecCount == InitCount /\ [][NextCount]_vars

\* C23: get_incident_count requests pages 1, 2, 3, ... in increasing order,
\* each at most once; it stops at the first empty page, the first request
\* failure or after page 50; and it always returns, never raises: after a
\* request failure at page k the value returned is the count of the
\* incidents of pages 1..k-1 that meet the criteria.
C23_PagesInOrderAndFailureReturnsCount ==
    /\ \A i \in DOMAIN plog : plog[i] = i
    /\ Len(plog) <= max_pages
    /\ ppc \in {"loop", "returned"}
    /\ ppc = "loop" <=> pend = ""
    /\ pend \in {"empty", "failure"} => Len(plog) = page
    /\ pend = "limit" => (Len(plog) = max_pages /\ page = max_pages + 1)
    /\ ppc = "returned" => count = hits

\* The third request fails after two pages that held incidents to count.
C23_Witness ==
    /\ ppc = "returned" /\ pend = "failure"
    /\ plog = <<1, 2, 3>>
    /\ count = 3

\* The loop ends at the page limit.
C23_LimitReached == ppc = "returned" /\ pend = "limit" /\ count > max_pages

(***************************************************************************)
(* get_incident_counts_summary, lines 298-330: three get_incident_count    *)
(* calls one after the other against the live API.  tickets is what the    *)
(* API holds (less than a page); other clients create tickets and change   *)
(* their status at any moment.                                             *)
(***************************************************************************)
\* The status_filter argument of the three calls, in order.
PassFilter(n) ==
    CASE n = 1 -> [isNone |-> TRUE, codes |-> {}]
      [] n = 2 -> [isNone |-> FALSE, codes |-> {4, 5}]
      [] n = 3 -> [isNone |-> FALSE, codes |-> {2, 3}]

InitReport ==
    /\ allowed_dept_ids \in CountAllowed
    /\ tickets \in SeqsUpTo(CountTickets, MaxTickets)
    /\ status_filter = PassFilter(1)
    /\ idx = 0 /\ count = 0 /\ counted = <<>>
    /\ plog = <<>> /\ hits = 0 /\ pend = "" /\ report = NoReport
    /\ ResolveIdle /\ PagingIdle /\ LoadIdle /\ DbIdle /\ DashIdle

\* One get_incident_count call of the summary: the first page holds the
\* tickets of the API and the second is empty, or the first request fails
\* and the call returns 0.
CountPass ==
    /\ report.pass < 3
    /\ \E failed \in BOOLEAN :
          LET n   == report.pass + 1
              st0 == [count |-> 0, page |-> 1, ppc |-> "loop", pend |-> "",
                      filter |-> PassFilter(n), allowed |-> allowed_dept_ids]
              st1 == gic_response(IF failed
                                  THEN [exc |-> "RequestException", served |-> <<>>]
                                  ELSE [exc |-> "", served |-> tickets], st0)
              st2 == IF st1.ppc = "loop"
                     THEN gic_response([exc |-> "", served |-> <<>>], st1) ELSE st1
          IN /\ count' = st2.count
             /\ status_filter' = PassFilter(n)
             /\ report' = [report EXCEPT
                              !.pass = n,
                              !.total_raised   = IF n = 1 THEN st2.count ELSE @,
                              !.total_resolved = IF n = 2 THEN st2.count ELSE @,
                              !.total_open     = IF n = 3 THEN st2.count ELSE @,
                              !.quiet = @ /\ ~failed]
    /\ UNCHANGED <<allowed_dept_ids, tickets, idx, counted, plog, hits, pend>>
    /\ UNCHANGED <<resolveVars, pagingVars, loadVars, dbVars, dashVars>>

\* Another client creates a ticket while the summary runs.
ApiCreate ==
    /\ report.pass < 3
    /\ Len(tickets) < MaxTickets
    /\ \E t \in CountTickets : tickets' = Append(tickets, t)
    /\ report' = [report EXCEPT !.quiet = @ /\ report.pass = 0]
    /\ UNCHANGED <<allowed_dept_ids, status_filter, idx, count, counted, plog, hits, pend>>
    /\ UNCHANGED <<resolveVars, pagingVars, loadVars, dbVars, dashVars>>

\* Another client changes the status of a ticket while the summary runs.
ApiSetStatus ==
    /\ report.pass < 3
    /\ \E i \in DOMAIN tickets, st \in {2, 4} :
          /\ tickets[i].status # st
          /\ tickets' = [tickets EXCEPT ![i].status = st]
    /\ report' = [report EXCEPT !.quiet = @ /\ report.pass = 0]
    /\ UNCHANGED <<allowed_dept_ids, status_filter, idx, count, counted, plog, hits, pend>>
    /\ UNCHANGED <<resolveVars, pagingVars, loadVars, dbVars, dashVars>>

NextReport == CountPass \/ ApiCreate \/ ApiSetStatus

SpecReport == InitReport /\ [][NextReport]_vars

\* C24: in every report returned by get_incident_counts_summary,
\* total_resolved + total_open <= total_raised, including when tickets are
\* created or change status on the API side between the three counting
\* passes.
C24_ResolvedPlusOpenWithinRaised ==
    report.pass = 3 => report.total_resolved + report.total_open <= report.total_raised

\* The relation holds of the reports made while nothing changed on the API
\* side and no request failed.
C24_QuietReport ==
    (report.pass = 3 /\ report.quiet) =>
        report.total_resolved + report.total_open <= report.total_raised

\* A quiet report that counts a resolved and an open incident.
C24_QuietWitness ==
    /\ report.pass = 3 /\ report.quiet
    /\ report.total_resolved = 1 /\ report.total_open = 1 /\ report.total_raised = 2

(***************************************************************************)
(* incident_dashboard.py get_all_incidents.  A field of a dict is          *)
(* [k, v]: k is "missing", "null" or "int", and v the number.              *)
(***************************************************************************)
\* dict.get(key): None for a missing key and for a null value.
dict_get(field) == IF field.k = "int" THEN field.v ELSE Null

Absent == [k |-> "missing", v |-> 0]

Present(n) == [k |-> "int", v |-> n]

MaxIncidents == 2

\* Lines 177-192: the ticket is an incident, and its created_at is absent,
\* unparsable, not comparable with the naive cutoff (a timestamp with a
\* zone: the TypeError is swallowed by the bare except) or not before it.
IncidentKept(ticket) ==
    /\ ticket.type # "" /\ ticket.type \in {"Incident", "incident"}
    /\ ticket.created_at # "naive-old"

\* Lines 205-215.
department_filter(all, dept_user_ids) ==
    SelectSeq(all, LAMBDA inc : \/ dict_get(inc.requester_id) \in dept_user_ids
                                \/ dict_get(inc.requested_for_id) \in dept_user_ids)

\* Lines 216-224.
individual_filter(all, context) ==
    LET user_id == dict_get(context.id)
    IN SelectSeq(all, LAMBDA inc : \/ dict_get(inc.requester_id) = user_id
                                   \/ dict_get(inc.requested_for_id) = user_id)

FetchedTickets ==
    [type : {"Incident", "Service Request"}, created_at : {"2024-01-15T10:30:00Z"},
     requester_id : {Absent, [k |-> "null", v |-> 0], Present(1), Present(2)},
     requested_for_id : {Absent, Present(2)}]

UserContexts == [id : {Absent, Present(1), Present(2)}, department_id : {Absent, Present(7)}]

InitIncidents ==
    /\ user_context \in UserContexts
    /\ is_department_head \in BOOLEAN
    /\ all_incidents \in SeqsUpTo(FetchedTickets, MaxIncidents)
    /\ incidents = <<>> /\ metrics = NoMetrics /\ dpc = "fetched"
    /\ ResolveIdle /\ FilterIdle /\ PagingIdle /\ LoadIdle /\ DbIdle /\ CountIdle

\* get_all_incidents after the tickets are fetched (all_incidents holds one
\* page of them): the incident filter, then the filter on the user context.
\* get_department_users answers with the ids the API lists for the
\* department.
GetAllIncidents ==
    /\ dpc = "fetched"
    /\ LET kept == SelectSeq(all_incidents, IncidentKept)
       IN IF is_department_head /\ Truthy(dict_get(user_context.department_id))
          THEN \E dept_user_ids \in SUBSET {1, 2} :
                  incidents' = department_filter(kept, dept_user_ids)
          ELSE incidents' = individual_filter(kept, user_context)
    /\ dpc' = "filtered"
    /\ UNCHANGED <<user_context, is_department_head, all_incidents, metrics>>
    /\ UNCHANGED <<resolveVars, filterVars, pagingVars, loadVars, dbVars, countVars>>

NextIncidents == GetAllIncidents

SpecIncidents == InitIncidents /\ [][NextIncidents]_vars

\* The ticket names user n as its requester or as the one it was requested for.
RequestedBy(ticket, n) ==
    \/ ticket.requester_id = Present(n)
    \/ ticket.requested_for_id = Present(n)

\* C25: get_all_incidents called with is_department_head false returns only
\* tickets whose requester_id or requested_for_id equals the id of the
\* requesting user, for every user_context (including one without an id)
\* and every ticket list (including tickets lacking requester fields).
C25_IndividualSeesOwnTickets ==
    (dpc = "filtered" /\ ~is_department_head) =>
        \A i \in DOMAIN incidents :
            /\ user_context.id.k = "int"
            /\ RequestedBy(incidents[i], user_context.id.v)

\* What the individual branch returns for a user that has an id: the
\* incidents of that user, in the order fetched.
C25_WithId ==
    (dpc = "filtered" /\ ~is_department_head /\ user_context.id.k = "int") =>
        incidents = SelectSeq(all_incidents,
                              LAMBDA t : t.type = "Incident"
                                         /\ RequestedBy(t, user_context.id.v))

(***************************************************************************)
(* incident_dashboard.py calculate_resolution_time and calculate_metrics.  *)
(* status and priority are numbers or Null (the key is absent); a          *)
(* timestamp is a string; an optional number is [isNone, v].               *)
(***************************************************************************)
NoValue == [isNone |-> TRUE, v |-> 0]

Value(n) == [isNone |-> FALSE, v |-> n]

\* datetime.fromisoformat after replace('Z', '+00:00'), as hours of the day;
\* other strings raise ValueError.
IsIsoFormat(t) == t \in {"2024-01-15T10:00:00Z", "2024-01-15T12:00:00Z", "2024-01-15T13:00:00Z"}

HourOf(t) ==
    CASE t = "2024-01-15T10:00:00Z" -> 10
      [] t = "2024-01-15T12:00:00Z" -> 12
      [] t = "2024-01-15T13:00:00Z" -> 13

\* calculate_resolution_time without the test of the status.
calculate_resolution_time_any_status(incident) ==
    IF incident.created_at = "" \/ incident.updated_at = "" THEN NoValue
    ELSE IF ~IsIsoFormat(incident.created_at) \/ ~IsIsoFormat(incident.updated_at)
    THEN NoValue
    ELSE Value(HourOf(incident.updated_at) - HourOf(incident.created_at))

\* calculate_resolution_time, lines 237-254.
calculate_resolution_time(incident) ==
    IF incident.status \notin {4, 5} THEN NoValue
    ELSE IF incident.created_at = "" \/ incident.updated_at = "" THEN NoValue
    ELSE IF ~IsIsoFormat(incident.created_at) \/ ~IsIsoFormat(incident.updated_at)
    THEN \* the bare except of line 253
         NoValue
    ELSE Value(HourOf(incident.updated_at) - HourOf(incident.created_at))

\* Lines 286-313, the loop body: m is the metrics dict and the local list
\* resolution_times.
metrics_row(incident, m) ==
    LET status   == incident.status
        priority == incident.priority
        rt       == calculate_resolution_time(incident)
    IN [m EXCEPT
          !.tickets_raised    = @ + 1,
          !.completed_tickets = IF status \in {4, 5} THEN @ + 1 ELSE @,
          !.in_progress       = IF status \in {2, 3} THEN @ + 1 ELSE @,
          !.low_priority      = IF priority = 1 THEN @ + 1 ELSE @,
          !.medium_priority   = IF priority = 2 THEN @ + 1 ELSE @,
          !.high_priority     = IF priority = 3 THEN @ + 1 ELSE @,
          !.urgent_priority   = IF priority = 4 THEN @ + 1 ELSE @,
          !.times             = IF rt.isNone THEN @ ELSE Append(@, rt.v)]

RECURSIVE metrics_rows(_, _, _)
metrics_rows(list, i, m) ==
    IF i > Len(list) THEN m ELSE metrics_rows(list, i + 1, metrics_row(list[i], m))

RECURSIVE SumOf(_)
SumOf(list) == IF list = <<>> THEN 0 ELSE Head(list) + SumOf(Tail(list))

MaxOf(list) == CHOOSE x \in Range(list) : \A y \in Range(list) : y <= x

MinOf(list) == CHOOSE x \in Range(list) : \A y \in Range(list) : x <= y

\* calculate_metrics, lines 257-323.  The average is kept as the pair of
\* the sum and the length it divides.
calculate_metrics(list) ==
    LET m == metrics_rows(list, 1,
                 [tickets_raised |-> 0, completed_tickets |-> 0, in_progress |-> 0,
                  high_priority |-> 0, medium_priority |-> 0, low_priority |-> 0,
                  urgent_priority |-> 0, times |-> <<>>])
        some == m.times # <<>>
    IN [total_incidents          |-> Len(list),
        tickets_raised           |-> m.tickets_raised,
        completed_tickets        |-> m.completed_tickets,
        in_progress              |-> m.in_progress,
        high_priority            |-> m.high_priority,
        medium_priority          |-> m.medium_priority,
        low_priority             |-> m.low_priority,
        urgent_priority          |-> m.urgent_priority,
        avg_resolution_time      |-> IF some THEN [isNone |-> FALSE, v |-> SumOf(m.times),
                                                   per |-> Len(m.times)]
                                     ELSE [isNone |-> TRUE, v |-> 0, per |-> 1],
        longest_resolution_time  |-> IF some THEN Value(MaxOf(m.times)) ELSE NoValue,
        shortest_resolution_time |-> IF some THEN Value(MinOf(m.times)) ELSE NoValue,
        resolution_times         |-> m.times]

Timestamps == {"", "garbled", "2024-01-15T10:00:00Z", "2024-01-15T12:00:00Z"}

\* Incidents that differ in status, in priority, or in their timestamps.
MetricIncidents ==
    [status : {Null, 2, 3, 4, 5, 6}, priority : {1},
     created_at : {"2024-01-15T10:00:00Z"}, updated_at : {"2024-01-15T12:00:00Z"}]
    \cup [status : {4}, priority : {Null, 1, 2, 3, 4, 5},
          created_at : {"2024-01-15T10:00:00Z"}, updated_at : {"2024-01-15T13:00:00Z"}]
    \cup [status : {2, 5}, priority : {3}, created_at : Timestamps, updated_at : Timestamps]

InitMetrics ==
    /\ incidents \in SeqsUpTo(MetricIncidents, MaxIncidents)
    /\ user_context = <<>> /\ is_department_head = FALSE /\ all_incidents = <<>>
    /\ metrics = NoMetrics /\ dpc = "filtered"
    /\ ResolveIdle /\ FilterIdle /\ PagingIdle /\ LoadIdle /\ DbIdle /\ CountIdle

\* metrics = calculate_metrics(incidents), line 429.
CalculateMetrics ==
    /\ dpc = "filtered"
    /\ metrics' = calculate_metrics(incidents)
    /\ dpc' = "measured"
    /\ UNCHANGED <<user_context, is_department_head, all_incidents, incidents>>
    /\ UNCHANGED <<resolveVars, filterVars, pagingVars, loadVars, dbVars, countVars>>

NextMetrics == CalculateMetrics

SpecMetrics == InitMetrics /\ [][NextMetrics]_vars

\* C26: calculate_metrics keeps these relations for every incident list:
\* tickets_raised = total_incidents = number of incidents;
\* completed_tickets + in_progress <= total_incidents; the low, medium, high
\* and urgent priority counts add up to at most total_incidents; the number
\* of resolution times recorded is at most completed_tickets; and the
\* average, longest and shortest values are None exactly when no resolution
\* time was recorded.
C26_MetricsRelations ==
    dpc = "measured" =>
        /\ metrics.tickets_raised = metrics.total_incidents
        /\ metrics.total_incidents = Len(incidents)
        /\ metrics.completed_tickets + metrics.in_progress <= metrics.total_incidents
        /\ metrics.low_priority + metrics.medium_priority + metrics.high_priority
             + metrics.urgent_priority <= metrics.total_incidents
        /\ Len(metrics.resolution_times) <= metrics.completed_tickets
        /\ metrics.avg_resolution_time.isNone <=> metrics.resolution_times = <<>>
        /\ metrics.longest_resolution_time.isNone <=> metrics.resolution_times = <<>>
        /\ metrics.shortest_resolution_time.isNone <=> metrics.resolution_times = <<>>

\* Two closed incidents of which one has a garbled timestamp: one resolution
\* time for two completed tickets.
C26_Witness ==
    /\ dpc = "measured"
    /\ metrics.total_incidents = 2 /\ metrics.completed_tickets = 2
    /\ Len(metrics.resolution_times) = 1
    /\ ~metrics.avg_resolution_time.isNone

====
